---- MODULE Spec2Model ----
(***************************************************************************)
(* A model of the calt workflow daemon: the run state machine              *)
(* (calt/core/state_machine.py), the step executor and its tools           *)
(* (calt/runtime/executor.py, calt/tools), the SQLite schema               *)
(* (calt/storage/sqlite.py) and the HTTP handlers of the daemon            *)
(* (calt/daemon/api.py).  Every handler is one action: it runs on its own  *)
(* connection and its writes become visible at its single commit.          *)
(***************************************************************************)
EXTENDS Integers, Sequences, FiniteSets, TLC

(***************************************************************************)
(* Bounds of the model.                                                    *)
(***************************************************************************)
\* Length of the event journal at which the handlers stop being called.
MaxEvents == 7

\* Python's None, for the string-valued and for the integer-valued columns.
None == "None"
NULL == 0

(***************************************************************************)
(* calt/core/models.py                                                     *)
(***************************************************************************)
WorkflowStatus ==
    {"pending", "awaiting_plan_approval", "awaiting_step_approval", "running",
     "succeeded", "failed", "cancelled", "skipped"}

TERMINAL_STATUSES == {"succeeded", "failed", "cancelled", "skipped"}

\* Run(session_id=..., plan_version=..., step_id=...) with the field defaults.
NewRun ==
    [status |-> "pending", needs_replan |-> FALSE, failure_reason |-> None,
     started_at |-> NULL, finished_at |-> NULL]

(***************************************************************************)
(* calt/core/state_machine.py                                              *)
(***************************************************************************)
\* A table that lets a failed run be run again.
TRANSITION_RULES_retry ==
    [s \in WorkflowStatus |->
        CASE s = "pending" -> {"awaiting_plan_approval", "cancelled"}
          [] s = "awaiting_plan_approval" -> {"awaiting_step_approval", "cancelled"}
          [] s = "awaiting_step_approval" -> {"running", "skipped", "cancelled"}
          [] s = "running" -> {"succeeded", "failed", "cancelled", "skipped"}
          [] s = "failed" -> {"running"}
          [] OTHER -> {}]

TRANSITION_RULES ==
    [s \in WorkflowStatus |->
        CASE s = "pending" -> {"awaiting_plan_approval", "cancelled"}
          [] s = "awaiting_plan_approval" -> {"awaiting_step_approval", "cancelled"}
          [] s = "awaiting_step_approval" -> {"running", "skipped", "cancelled"}
          [] s = "running" -> {"succeeded", "failed", "cancelled", "skipped"}
          [] OTHER -> {}]

\* A replan flag raised by every unsuccessful end of a run.
needs_replan_for_unsuccessful(status) == status \in {"failed", "cancelled"}

needs_replan_for_status(status) == status = "failed"

\* A state machine that lets any run be cancelled, terminal ones included.
assert_transition_raises_cancel_anywhere(current, next_status) ==
    next_status \notin (TRANSITION_RULES[current] \cup {"cancelled"})

\* TRUE iff assert_transition raises InvalidStateTransition.
assert_transition_raises(current, next_status) ==
    next_status \notin TRANSITION_RULES[current]

\* A test for None alone.
FalsyNoneOnly(text) == text = None

\* Python truthiness of an optional string: None and "" are falsy.
Falsy(text) == text = None \/ text = ""

\* transition_run(run, next_status, failure_reason=...) at instant t (t >= 1).
\* The result is [raised, run]: when apply_transition raises, nothing has been
\* assigned yet and the run is as it was.
transition_run(r, next_status, failure_reason, t) ==
    IF assert_transition_raises(r.status, next_status)
    THEN [raised |-> TRUE, run |-> r]
    ELSE [raised |-> FALSE,
          run |->
            [status |-> next_status,
             needs_replan |-> needs_replan_for_status(next_status),
             started_at |->
                IF next_status = "running" /\ r.started_at = NULL
                THEN t ELSE r.started_at,
             failure_reason |->
                IF next_status = "failed"
                THEN (IF Falsy(failure_reason) THEN "step_failed" ELSE failure_reason)
                ELSE IF next_status \in TERMINAL_STATUSES THEN None
                ELSE r.failure_reason,
             finished_at |->
                IF next_status \in TERMINAL_STATUSES THEN t ELSE r.finished_at]]

(***************************************************************************)
(* The session workspace.  The plans of the model address one file of it,  *)
(* memo.txt.  A text is [lines, eol, nl]: its lines as str.splitlines      *)
(* returns them (none of them empty), the terminator between them ("LF" or *)
(* "CRLF") and whether the last line is terminated.  A text of at most one *)
(* unterminated line has eol "LF".  The state of a file is [exists, text]. *)
(***************************************************************************)
Text(lines, nl) == [lines |-> lines, eol |-> "LF", nl |-> nl]
EmptyText == Text(<<>>, FALSE)

\* str.splitlines()
splitlines(text) == text.lines

\* Path.read_text: universal newlines turn every terminator into "\n".
read_text(text) == [text EXCEPT !.eol = "LF"]

NoFile == [exists |-> FALSE, text |-> EmptyText]
\* A write that drops the terminator of the last line.
FileWithStripped(text) == [exists |-> TRUE, text |-> [text EXCEPT !.nl = FALSE]]

\* Path.write_text on Linux keeps the terminators of the text.
FileWith(text) == [exists |-> TRUE, text |-> text]

(***************************************************************************)
(* calt/tools/write_ops.py                                                 *)
(***************************************************************************)
\* hashlib.sha256 of a text: an injective tag of the text.
_sha256(content) == <<"sha256", content>>

\* The relative paths of the model: one inside the workspace, one that
\* resolves outside it.
InsidePath == "memo.txt"
OutsidePath == "../escape.txt"

\* The workspace root is /ws; a location is the sequence of the names from
\* the root of the file system.  /ws/link is a symbolic link to /.
WorkspaceRoot == <<"ws">>
Symlinks == (<<"ws", "link">> :> <<>>)

\* Path(relative_path).parts: a leading "/" makes the path absolute.
PathParts ==
    (InsidePath :> <<"memo.txt">>)
    @@ ("sub/../memo.txt" :> <<"sub", "..", "memo.txt">>)
    @@ (OutsidePath :> <<"..", "escape.txt">>)
    @@ ("/escape.txt" :> <<"/", "escape.txt">>)
    @@ ("link/escape.txt" :> <<"link", "escape.txt">>)

\* (root / relative_path).resolve(): the location reached from cur along
\* parts, following the symbolic links.
RECURSIVE Resolve(_, _)
Resolve(cur, parts) ==
    IF parts = <<>> THEN cur
    ELSE IF Head(parts) = "/" THEN Resolve(<<>>, Tail(parts))
    ELSE IF Head(parts) = ".."
    THEN Resolve(IF cur = <<>> THEN cur ELSE SubSeq(cur, 1, Len(cur) - 1), Tail(parts))
    ELSE IF Append(cur, Head(parts)) \in DOMAIN Symlinks
    THEN Resolve(Symlinks[Append(cur, Head(parts))], Tail(parts))
    ELSE Resolve(Append(cur, Head(parts)), Tail(parts))

\* target of _resolve_workspace_path
TargetOf(relative_path) == Resolve(WorkspaceRoot, PathParts[relative_path])

\* A check of the written path alone: no "..", not absolute.
_resolve_workspace_path_raises_lexical(relative_path) ==
    \E i \in 1 .. Len(PathParts[relative_path]) :
        PathParts[relative_path][i] \in {"..", "/"}

\* TRUE iff _resolve_workspace_path raises WorkspaceBoundaryError:
\* target.relative_to(root) raises ValueError.
_resolve_workspace_path_raises(relative_path) ==
    \/ Len(TargetOf(relative_path)) < Len(WorkspaceRoot)
    \/ SubSeq(TargetOf(relative_path), 1, Len(WorkspaceRoot)) # WorkspaceRoot

\* "/".join of the names.
RECURSIVE as_posix(_)
as_posix(names) ==
    IF names = <<>> THEN "."
    ELSE IF Len(names) = 1 THEN Head(names)
    ELSE Head(names) \o "/" \o as_posix(Tail(names))

\* canonical of _resolve_workspace_path, for a path that does not raise.
Canonical(relative_path) ==
    as_posix(SubSeq(TargetOf(relative_path), Len(WorkspaceRoot) + 1,
                    Len(TargetOf(relative_path))))

\* str(WorkspaceBoundaryError)
OutsideMessage(relative_path) ==
    "path '" \o relative_path \o "' is outside workspace '/ws'"

_read_text_if_exists(file) == IF file.exists THEN read_text(file.text) ELSE EmptyText

\* difflib.unified_diff of the lines of two short texts (every line lies
\* within the three lines of context): empty when the texts have the same
\* lines, otherwise the headers and one hunk that shows the lines of both.
_build_diff(before, after, relative_path) ==
    IF splitlines(before) = splitlines(after) THEN <<>>
    ELSE <<relative_path, splitlines(before), splitlines(after)>>

_build_preview_payload(path, before, after) ==
    [path |-> path, changed |-> before # after,
     diff |-> _build_diff(before, after, path),
     old_sha256 |-> _sha256(before), new_sha256 |-> _sha256(after),
     applied |-> FALSE]

\* A validation that compares the path and new_sha256 alone.
_validate_preview_raises_no_diff(provided, actual) ==
    \/ provided.path # actual.path
    \/ provided.new_sha256 # actual.new_sha256

\* TRUE iff _validate_preview raises PreviewMismatchError.
_validate_preview_raises(provided, actual) ==
    \/ provided.path # actual.path
    \/ provided.diff # actual.diff
    \/ provided.new_sha256 # actual.new_sha256

\* A JSON string among the inputs of a step, where the tools expect a
\* mapping: provided.get(key) raises AttributeError on it.
Str(s) == [str |-> s]
IsStr(value) == DOMAIN value = {"str"}
NoGetMessage == "'str' object has no attribute 'get'"

\* A tool call returns [error, output, file]: error is None and output the
\* returned mapping, or error is str(exception) and output is NoOutput; file
\* is the state of memo.txt after the call.
NoOutput == [path |-> None]
Raised(message, file) == [error |-> message, output |-> NoOutput, file |-> file]
Returned(output, file) == [error |-> None, output |-> output, file |-> file]

\* A preview that writes the content it previews.
write_file_preview_writes(path, content, file) ==
    IF _resolve_workspace_path_raises(path)
    THEN Raised(OutsideMessage(path), file)
    ELSE Returned(_build_preview_payload(Canonical(path), _read_text_if_exists(file),
                                         content), FileWith(content))

write_file_preview(path, content, file) ==
    IF _resolve_workspace_path_raises(path)
    THEN Raised(OutsideMessage(path), file)
    ELSE Returned(_build_preview_payload(Canonical(path), _read_text_if_exists(file),
                                         content), file)

\* preview is <<>> (no preview given) or <<p>>.
write_file_apply(path, content, preview, file) ==
    IF _resolve_workspace_path_raises(path)
    THEN Raised(OutsideMessage(path), file)
    ELSE LET actual == _build_preview_payload(Canonical(path), _read_text_if_exists(file),
                                              content)
         IN  IF preview # <<>> /\ IsStr(preview[1])
             THEN Raised(NoGetMessage, file)
             ELSE IF preview # <<>> /\ _validate_preview_raises(preview[1], actual)
             THEN Raised("provided preview does not match current file state", file)
             ELSE Returned([actual EXCEPT !.applied = TRUE], FileWith(content))

\* A patch of the model is [path, old, new]: one hunk at line 1 that deletes
\* the lines old and adds the lines new.
\* TRUE iff _apply_hunks raises PatchApplyError on the text before.
_apply_hunks_raises(before, patch) ==
    \/ Len(splitlines(before)) < Len(patch.old)
    \/ SubSeq(splitlines(before), 1, Len(patch.old)) # patch.old

\* The lines joined by "\n", and terminated if the text before was and any
\* line is left.
_apply_hunks(before, patch) ==
    LET result == patch.new \o SubSeq(splitlines(before), Len(patch.old) + 1,
                                       Len(splitlines(before)))
    IN  Text(result, before.nl /\ result # <<>>)

apply_patch(patch, mode, preview, file) ==
    IF mode \notin {"preview", "apply"}
    THEN Raised("mode must be 'preview' or 'apply'", file)
    ELSE IF _resolve_workspace_path_raises(patch.path)
    THEN Raised(OutsideMessage(patch.path), file)
    ELSE IF _apply_hunks_raises(_read_text_if_exists(file), patch)
    THEN Raised("deletion line does not match current content", file)
    ELSE LET before == _read_text_if_exists(file)
             after == _apply_hunks(before, patch)
             actual == _build_preview_payload(Canonical(patch.path), before, after)
         IN  IF mode = "preview" THEN Returned(actual, file)
             ELSE IF preview # <<>> /\ IsStr(preview[1])
             THEN Raised(NoGetMessage, file)
             ELSE IF preview # <<>> /\ _validate_preview_raises(preview[1], actual)
             THEN Raised("provided preview does not match current file state", file)
             ELSE Returned([actual EXCEPT !.applied = TRUE], FileWith(after))

(***************************************************************************)
(* calt/tools/readonly.py.  A command is a string of words, spaces and     *)
(* quotes; shlex.split reads it in POSIX mode.                              *)
(***************************************************************************)
ALLOWLIST_COMMAND_PREFIXES ==
    {<<"ls">>, <<"cat">>, <<"rg">>, <<"find">>, <<"git", "status">>,
     <<"git", "diff">>, <<"python", "-m", "pytest", "-q">>}

\* An allowlist that looks at the first token of the prefixes alone.
_tokens_match_allowlist_first_token(tokens) ==
    \E prefix \in ALLOWLIST_COMMAND_PREFIXES :
        /\ Len(tokens) >= 1
        /\ tokens[1] = prefix[1]

_tokens_match_allowlist(tokens) ==
    \E prefix \in ALLOWLIST_COMMAND_PREFIXES :
        /\ Len(tokens) >= Len(prefix)
        /\ SubSeq(tokens, 1, Len(prefix)) = prefix

\* shlex reading the text character by character: quote is the open
\* quotation mark or "", token the word read so far, in_token whether a word
\* has begun (an empty pair of quotes begins one).  The end of the text
\* inside a quotation raises ValueError("No closing quotation").
RECURSIVE shlex_read(_, _, _, _, _)
shlex_read(text, quote, token, in_token, tokens) ==
    IF text = ""
    THEN IF quote # "" THEN [raises |-> TRUE, tokens |-> <<>>]
         ELSE [raises |-> FALSE,
               tokens |-> IF in_token THEN Append(tokens, token) ELSE tokens]
    ELSE LET c == SubSeq(text, 1, 1)
             rest == SubSeq(text, 2, Len(text))
         IN  IF quote # ""
             THEN IF c = quote THEN shlex_read(rest, "", token, TRUE, tokens)
                  ELSE shlex_read(rest, quote, token \o c, TRUE, tokens)
             ELSE IF c \in {"'", "\""} THEN shlex_read(rest, c, token, TRUE, tokens)
             ELSE IF c = " "
             THEN shlex_read(rest, "", "", FALSE,
                             IF in_token THEN Append(tokens, token) ELSE tokens)
             ELSE shlex_read(rest, "", token \o c, TRUE, tokens)

\* shlex.split(command)
shlex_split(command) == shlex_read(command, "", "", FALSE, <<>>)

\* RunShellReadonlyInput and run_shell_readonly: command has min_length 1;
\* process is <<>> or holds the tokens subprocess.run was called with.
run_shell_readonly(command, file) ==
    LET split == shlex_split(command)
    IN  IF command = "" THEN Raised("validation error for RunShellReadonlyInput", file)
        ELSE IF split.raises THEN Raised("command could not be parsed", file)
        ELSE IF split.tokens = <<>> THEN Raised("command must not be empty", file)
        ELSE IF ~_tokens_match_allowlist(split.tokens)
        THEN Raised("command is not allowlisted: " \o command, file)
        ELSE [error |-> None, output |-> [command |-> command, exit_code |-> 0],
              file |-> file, process |-> <<split.tokens>>]

list_dir(path, file) ==
    IF path = OutsidePath THEN Raised("path must stay within workspace_root", file)
    ELSE IF path # "." THEN Raised("target path is not a directory", file)
    ELSE Returned([path |-> path,
                   entries |-> IF file.exists THEN <<InsidePath>> ELSE <<>>], file)

read_file(path, file) ==
    IF path = OutsidePath THEN Raised("path must stay within workspace_root", file)
    ELSE IF path # InsidePath \/ ~file.exists
    THEN Raised("No such file or directory", file)
    ELSE Returned([path |-> path, content |-> read_text(file.text)], file)

(***************************************************************************)
(* calt/runtime/executor.py.  The inputs of a step are a record that holds *)
(* the keys the plan gave.                                                  *)
(***************************************************************************)
Has(inputs, key) == key \in DOMAIN inputs

\* inputs.get("preview"): <<>> for None.
GetPreview(inputs) == IF Has(inputs, "preview") THEN <<inputs.preview>> ELSE <<>>

MissingInput(file) == Raised("missing required input", file)

\* StepExecutor._invoke on the workspace file: [error, output, file].
_invoke(tool, inputs, file) ==
    CASE tool = "read_file" ->
            IF Has(inputs, "path") THEN read_file(inputs.path, file)
            ELSE Raised("validation error for ReadFileInput", file)
      [] tool = "list_dir" ->
            list_dir(IF Has(inputs, "path") THEN inputs.path ELSE ".", file)
      [] tool = "run_shell_readonly" ->
            IF Has(inputs, "command") THEN run_shell_readonly(inputs.command, file)
            ELSE Raised("validation error for RunShellReadonlyInput", file)
      [] tool = "write_file_preview" ->
            IF Has(inputs, "path") /\ Has(inputs, "content")
            THEN write_file_preview(inputs.path, inputs.content, file)
            ELSE MissingInput(file)
      [] tool = "write_file_apply" ->
            IF Has(inputs, "path") /\ Has(inputs, "content")
            THEN write_file_apply(inputs.path, inputs.content, GetPreview(inputs), file)
            ELSE MissingInput(file)
      [] tool = "apply_patch" ->
            IF Has(inputs, "patch") /\ Has(inputs, "mode")
            THEN apply_patch(inputs.patch, inputs.mode, GetPreview(inputs), file)
            ELSE MissingInput(file)
      [] OTHER -> Raised("unknown tool: " \o tool, file)

\* StepExecutor.execute with a handler that returns within the timeout:
\* the StepRunResult, and the workspace file after the call.
execute(tool, inputs, file) ==
    LET r == _invoke(tool, inputs, file)
    IN  IF r.error # None
        THEN [status |-> "failed", output |-> NoOutput, error |-> r.error,
              artifacts |-> <<>>, file |-> r.file, process |-> <<>>]
        ELSE [status |-> "succeeded", output |-> r.output, error |-> None,
              artifacts |-> <<[name |-> tool \o ".json", kind |-> "json",
                               payload |-> r.output]>>,
              file |-> r.file,
              process |-> IF "process" \in DOMAIN r THEN r.process ELSE <<>>]

\* The service after its construction: its client has received no call.
NoDiscord ==
    [calls |-> <<>>, op |-> "none", user_id |-> 0, raised |-> None]

\* The doctor command has not run.
NoDoctor ==
    [base_url_ok |-> TRUE, token |-> "", checks |-> <<>>, calls |-> <<>>, ok |-> TRUE]

\* The flow command has not run.
NoFlow ==
    [pc |-> "idle", goal |-> "", plan |-> <<>>, session_id |-> "", ordered_steps |-> <<>>,
     index |-> 0, approve_payload |-> <<>>, step_results |-> <<>>, calls |-> <<>>,
     payload |-> <<>>]

\* No execute call is in progress.
NoWorker ==
    [pc |-> "idle", bounded_timeout |-> 0, duration |-> 0, returns |-> FALSE,
     raises |-> FALSE, elapsed |-> 0, timed_out |-> FALSE, status |-> None,
     error |-> None]

(***************************************************************************)
(* The state.  The tables of calt/storage/sqlite.py hold the columns the   *)
(* handlers read or write (the timestamp columns are left out); the        *)
(* journal is the sequence of the events rows in id order.                 *)
(***************************************************************************)
VARIABLES
    sessions,    \* sessions: id -> [goal, status]
    plans,       \* plans rows [id, session_id, version, title]
    steps,       \* steps rows [id, plan_id, step_key, title, tool_name, status, risk, payload_json]
    approvals,   \* approvals rows [id, session_id, plan_id, step_id, approval_type, source, user_id]
    runs,        \* runs rows [id, session_id, plan_id, step_id, tool_name, status, failure_reason]
    artifacts,   \* artifacts rows [id, session_id, run_id, step_id, kind, path, sha256]
    events,      \* the events rows, in id order
    step_seq,    \* sqlite_sequence of steps: the largest step id ever given
    workspace,   \* session id -> state of memo.txt in the session's workspace
    submitted,   \* what the clients sent, with the request fields the handlers drop
    last,        \* the last request and its response
    run,         \* a Run object driven directly through transition_run
    clock,       \* the instant utc_now returned last
    outcome,     \* the last transition_run call on run: [next_status, failure_reason, raised]
    fs,          \* the files the tools are called on directly: location -> state of the file
    call,        \* the last direct call of a tool and what it returned
    held,        \* <<>>, or <<h>> for the last preview a direct call returned
    tx,          \* the open transaction of an execute_step request running beside the others
    worker,      \* a StepExecutor.execute call on a handler that takes its time
    discord,     \* the DiscordBotService: the calls its client received, and its last operation
    doctor,      \* the last run of the doctor command: its settings, its checks, the client calls
    flow         \* a run of the CLI flow: its position, the client calls, its step_results

dbvars == <<sessions, plans, steps, approvals, runs, artifacts, events, step_seq, workspace, submitted>>
toolvars == <<fs, call, held, worker>>
clientvars == <<discord, doctor, flow>>
runvars == <<run, clock, outcome, toolvars, tx, clientvars>>
vars == <<sessions, plans, steps, approvals, runs, artifacts, events, step_seq,
          workspace, submitted, last, run, clock, outcome, fs, call, held, tx, worker,
          discord, doctor, flow>>

\* The session ids uuid4 hands out, in the order it hands them out.
SessionIds == <<"session_1">>

\* The plan versions the clients import and approve.
Versions == {1, 2}

NoBody == [empty |-> TRUE]
NoRequest == [empty |-> TRUE]

Response(op, session_id, request, code, detail, body) ==
    [op |-> op, session_id |-> session_id, request |-> request,
     code |-> code, detail |-> detail, body |-> body]

\* A request that ends in an HTTPException or an unhandled error: the
\* connection is closed without a commit.
Refuse(op, session_id, request, code, detail) ==
    /\ last' = Response(op, session_id, request, code, detail, NoBody)
    /\ UNCHANGED dbvars
    /\ UNCHANGED runvars

\* _insert_event
_insert_event(evs, session_id, run_id, event_type, summary, payload_text, source, user_id) ==
    Append(evs, [id |-> Len(evs) + 1, session_id |-> session_id, run_id |-> run_id,
                 event_type |-> event_type, summary |-> summary,
                 payload_text |-> payload_text, source |-> source, user_id |-> user_id])

\* _fetch_plan_or_404: the set holding the row, empty for 404.
_fetch_plan(session_id, version) ==
    {p \in plans : p.session_id = session_id /\ p.version = version}

PlanOf(step) == CHOOSE p \in plans : p.id = step.plan_id

\* _fetch_step_or_404: the set holding the row fetchone() returns, empty for
\* 404.  The join is searched through the UNIQUE(session_id, version) index
\* of plans, so of the steps of the session that carry the key the one of
\* the lowest plan version comes first.
_fetch_step(session_id, step_key) ==
    LET found == {st \in steps : st.step_key = step_key
                                 /\ PlanOf(st).session_id = session_id}
    IN  {st \in found : \A other \in found : PlanOf(st).version <= PlanOf(other).version}

\* SELECT MAX(version) FROM plans WHERE session_id = ?  (NULL without plans)
current_plan_version(session_id) ==
    LET vs == {p.version : p \in {q \in plans : q.session_id = session_id}}
    IN  IF vs = {} THEN NULL ELSE CHOOSE v \in vs : \A w \in vs : w <= v

\* The locations the paths of the model resolve to.
Targets == {TargetOf(path) : path \in DOMAIN PathParts}

NoPatch == [path |-> InsidePath, old |-> <<>>, new |-> <<>>]

NoCall ==
    [op |-> "none", tool |-> "none", path |-> InsidePath, content |-> EmptyText, patch |-> NoPatch,
     mode |-> "", preview |-> <<>>,
     error |-> None, output |-> NoOutput, status |-> "", artifacts |-> <<>>,
     command |-> "", process |-> <<>>]

\* No execute_step request is between its first read and its commit.
NoTx == [pc |-> "idle", session_id |-> None, step_id |-> None, step_row |-> <<>>,
         result |-> <<>>, run_id |-> NULL, saved |-> <<>>, db |-> <<>>]

Init ==
    /\ sessions = <<>>
    /\ plans = {}
    /\ steps = {}
    /\ approvals = {}
    /\ runs = {}
    /\ artifacts = {}
    /\ events = <<>>
    /\ step_seq = 0
    /\ workspace = <<>>
    /\ submitted = [session |-> <<>>, risk |-> <<>>, plan |-> <<>>]
    /\ last = Response("none", None, NoRequest, 0, None, NoBody)
    /\ run = NewRun
    /\ clock = 0
    /\ outcome = [next_status |-> None, failure_reason |-> None, raised |-> FALSE]
    /\ fs = [t \in Targets |-> NoFile]
    /\ call = NoCall
    /\ held = <<>>
    /\ tx = NoTx
    /\ worker = NoWorker
    /\ discord = NoDiscord
    /\ doctor = NoDoctor
    /\ flow = NoFlow

(***************************************************************************)
(* calt/daemon/api.py                                                      *)
(***************************************************************************)
\* POST /api/v1/sessions.  CreateSessionRequest has the field goal alone:
\* the other fields of the body are dropped.
\* Session(goal=...) draws a fresh id: the ids are drawn in the order of
\* session_ids.
create_session_of(session_ids, req) ==
    /\ Cardinality(DOMAIN sessions) < Len(session_ids)
    /\ LET id == session_ids[Cardinality(DOMAIN sessions) + 1]
       IN  /\ sessions' = sessions @@ (id :> [goal |-> IF req.goal = None THEN "" ELSE req.goal,
                                               status |-> "pending"])
           /\ events' = _insert_event(events, id, NULL, "session_created",
                                      "session created", "", "daemon", None)
           /\ workspace' = workspace @@ (id :> NoFile)
           /\ submitted' = [submitted EXCEPT !.session = @ @@ (id :> req)]
           /\ last' = Response("create_session", id, req, 200, None,
                               [id |-> id, goal |-> req.goal, status |-> "pending",
                                plan_version |-> NULL])
    /\ UNCHANGED <<plans, steps, approvals, runs, artifacts, step_seq>>
    /\ UNCHANGED runvars

create_session(req) == create_session_of(SessionIds, req)

\* GET /api/v1/sessions/{session_id}
get_session(session_id) ==
    IF session_id \notin DOMAIN sessions
    THEN Refuse("get_session", session_id, NoRequest, 404, "session not found")
    ELSE /\ last' = Response("get_session", session_id, NoRequest, 200, None,
                             [id |-> session_id,
                              goal |-> IF sessions[session_id].goal = "" THEN None
                                       ELSE sessions[session_id].goal,
                              status |-> sessions[session_id].status,
                              plan_version |-> current_plan_version(session_id)])
         /\ UNCHANGED dbvars
         /\ UNCHANGED runvars

\* json.dumps of a value and json.loads of the text: the text holds the
\* value, and nothing else of the request.
json_dumps(value) == [json |-> value]
json_loads(text) == text.json

\* PlanStepInput: the fields of a step of the request, the defaults filled
\* in; a field risk of the request is not among them.
PlanStepInput(step) ==
    [id |-> step.id, title |-> step.title, tool |-> step.tool,
     inputs |-> IF "inputs" \in DOMAIN step THEN step.inputs ELSE <<>>,
     timeout_sec |-> IF "timeout_sec" \in DOMAIN step THEN step.timeout_sec ELSE 30]

\* A parse that bounds the timeout by 30 seconds.
_parse_step_payload_bounded(payload_json) ==
    [inputs |-> json_loads(payload_json).inputs,
     timeout_sec |-> IF json_loads(payload_json).timeout_sec > 30 THEN 30
                     ELSE json_loads(payload_json).timeout_sec]

\* _parse_step_payload of a payload import_plan wrote: [inputs, timeout_sec]
\* with max(1, min(120, timeout_sec)).
_parse_step_payload(payload_json) ==
    [inputs |-> json_loads(payload_json).inputs,
     timeout_sec |->
        IF json_loads(payload_json).timeout_sec > 120 THEN 120
        ELSE IF json_loads(payload_json).timeout_sec < 1 THEN 1
        ELSE json_loads(payload_json).timeout_sec]

_serialize_step_row(row) ==
    [id |-> row.step_key, title |-> row.title, tool |-> row.tool_name,
     status |-> row.status, inputs |-> _parse_step_payload(row.payload_json).inputs,
     timeout_sec |-> _parse_step_payload(row.payload_json).timeout_sec]

\* The rows in the order of their ids (ORDER BY id).
RECURSIVE OrderById(_)
OrderById(rows) ==
    IF rows = {} THEN <<>>
    ELSE LET first == CHOOSE r \in rows : \A o \in rows : r.id <= o.id
         IN  <<first>> \o OrderById(rows \ {first})

\* The step keys of a request, as a set; the request repeats a key iff the
\* set is smaller than the list.
StepKeys(req) == {req.steps[i].id : i \in 1 .. Len(req.steps)}

\* ON DELETE SET NULL of the step_id columns, for the deleted step ids.
SetNullStep(rows, deleted) ==
    {IF r.step_id \in deleted THEN [r EXCEPT !.step_id = NULL] ELSE r : r \in rows}

\* The tables import_plan writes, and the AUTOINCREMENT counter of steps.
ImportDb == [sessions |-> sessions, plans |-> plans, steps |-> steps,
             approvals |-> approvals, runs |-> runs, artifacts |-> artifacts,
             events |-> events, step_seq |-> step_seq]

\* The id of the plan row after the upsert of (session_id, version).
upserted_plan_id(session_id, version) ==
    LET existing == {p \in plans : p.session_id = session_id /\ p.version = version}
    IN  IF existing = {} THEN Cardinality(plans) + 1
        ELSE (CHOOSE p \in existing : TRUE).id

\* The rows of the request written from its last step to its first.
inserted_steps_last_first(plan_id, req, n) ==
    {[id |-> step_seq + n + 1 - i, plan_id |-> plan_id,
      step_key |-> req.steps[i].id, title |-> req.steps[i].title,
      tool_name |-> req.steps[i].tool, status |-> "pending",
      risk |-> "low",
      payload_json |->
          json_dumps([inputs |-> PlanStepInput(req.steps[i]).inputs,
                      timeout_sec |-> PlanStepInput(req.steps[i]).timeout_sec])]
     : i \in 1 .. n}

\* The rows the first n INSERT INTO steps of the request write.  PlanStepInput
\* has no field risk: the column keeps its default 'low'.
inserted_steps(plan_id, req, n) ==
    {[id |-> step_seq + i, plan_id |-> plan_id,
      step_key |-> req.steps[i].id, title |-> req.steps[i].title,
      tool_name |-> req.steps[i].tool, status |-> "pending",
      risk |-> "low",
      payload_json |->
          json_dumps([inputs |-> PlanStepInput(req.steps[i]).inputs,
                      timeout_sec |-> PlanStepInput(req.steps[i]).timeout_sec])]
     : i \in 1 .. n}

\* The first step of the request whose id repeats the id of a step before it:
\* its INSERT violates UNIQUE(plan_id, step_key).
first_repeated(req) ==
    CHOOSE i \in 1 .. Len(req.steps) :
        /\ \E j \in 1 .. i - 1 : req.steps[j].id = req.steps[i].id
        /\ \A k \in 1 .. i - 1 :
              \A j \in 1 .. k - 1 : req.steps[j].id # req.steps[k].id

\* The tables as the connection of the request sees them when that INSERT
\* raises: the plan row is upserted, the steps of the plan are deleted with
\* their references set to NULL, and the steps before the repeated one are
\* inserted.
import_plan_until_raise(session_id, req) ==
    LET plan_id == upserted_plan_id(session_id, req.version)
        deleted == {st.id : st \in {x \in steps : x.plan_id = plan_id}}
        n == first_repeated(req) - 1
    IN  [ImportDb EXCEPT
            !.plans = {p \in @ : p.id # plan_id}
                      \cup {[id |-> plan_id, session_id |-> session_id,
                             version |-> req.version, title |-> req.title]},
            !.steps = {st \in @ : st.plan_id # plan_id}
                      \cup inserted_steps(plan_id, req, n),
            !.approvals = SetNullStep(@, deleted),
            !.runs = SetNullStep(@, deleted),
            !.artifacts = SetNullStep(@, deleted),
            !.step_seq = @ + n]

\* A connection that commits each statement as it is executed.
connection_close_autocommit(committed, private) == private

\* finally: connection.close() with no commit before it: the statements of
\* the request are rolled back.
connection_close(committed, private) == committed

\* The handler raises after some of its statements: the connection is
\* closed and the client receives 500.
Raise(op, session_id, request, private) ==
    /\ last' = Response(op, session_id, request, 500, "Internal Server Error", NoBody)
    /\ LET db == connection_close(ImportDb, private)
       IN  /\ sessions' = db.sessions
           /\ plans' = db.plans
           /\ steps' = db.steps
           /\ approvals' = db.approvals
           /\ runs' = db.runs
           /\ artifacts' = db.artifacts
           /\ events' = db.events
           /\ step_seq' = db.step_seq
    /\ UNCHANGED <<workspace, submitted>>
    /\ UNCHANGED runvars

\* POST /api/v1/sessions/{session_id}/plans/import.
import_plan(session_id, req) ==
    /\ IF session_id \notin DOMAIN sessions
       THEN Refuse("import_plan", session_id, req, 404, "session not found")
       ELSE IF \E i \in 1 .. Len(req.steps) :
                    PlanStepInput(req.steps[i]).timeout_sec \notin 1 .. 120
       THEN \* timeout_sec: int = Field(default=30, ge=1, le=120)
            Refuse("import_plan", session_id, req, 422, "Unprocessable Entity")
       ELSE IF Cardinality(StepKeys(req)) < Len(req.steps)
       THEN \* UNIQUE(plan_id, step_key): sqlite3.IntegrityError, no commit.
            Raise("import_plan", session_id, req,
                  import_plan_until_raise(session_id, req))
       ELSE
         LET plan_id == upserted_plan_id(session_id, req.version)
             deleted == {st.id : st \in {x \in steps : x.plan_id = plan_id}}
             inserted == inserted_steps(plan_id, req, Len(req.steps))
         IN  /\ plans' = {p \in plans : p.id # plan_id}
                         \cup {[id |-> plan_id, session_id |-> session_id,
                                version |-> req.version, title |-> req.title]}
             /\ steps' = {st \in steps : st.plan_id # plan_id} \cup inserted
             /\ step_seq' = step_seq + Len(req.steps)
             /\ approvals' = SetNullStep(approvals, deleted)
             /\ runs' = SetNullStep(runs, deleted)
             /\ artifacts' = SetNullStep(artifacts, deleted)
             /\ sessions' = [sessions EXCEPT ![session_id] =
                                [goal |-> IF req.session_goal = None THEN @.goal
                                          ELSE req.session_goal,
                                 status |-> "awaiting_plan_approval"]]
             /\ events' = _insert_event(events, session_id, NULL, "plan_imported",
                                        "plan v" \o ToString(req.version) \o " imported",
                                        req.title, "daemon", None)
             /\ submitted' = [submitted EXCEPT
                                !.risk =
                                    [id \in (DOMAIN @ \ deleted) |-> @[id]]
                                    @@ [id \in {step_seq + i : i \in 1 .. Len(req.steps)} |->
                                            IF "risk" \in DOMAIN req.steps[id - step_seq]
                                            THEN req.steps[id - step_seq].risk ELSE "low"],
                                !.plan = (<<session_id, req.version>> :> req) @@ @]
             /\ last' = Response("import_plan", session_id, req, 200, None,
                                 [session_id |-> session_id, version |-> req.version,
                                  title |-> req.title])
             /\ UNCHANGED workspace
             /\ UNCHANGED runvars

\* GET /api/v1/sessions/{session_id}/plans/{version}
get_plan(session_id, version) ==
    LET request == [version |-> version]
    IN  IF session_id \notin DOMAIN sessions
        THEN Refuse("get_plan", session_id, request, 404, "session not found")
        ELSE IF _fetch_plan(session_id, version) = {}
        THEN Refuse("get_plan", session_id, request, 404, "plan not found")
        ELSE
          LET plan_row == CHOOSE p \in _fetch_plan(session_id, version) : TRUE
              step_rows == OrderById({st \in steps : st.plan_id = plan_row.id})
          IN  /\ last' = Response("get_plan", session_id, request, 200, None,
                      [session_id |-> session_id, version |-> plan_row.version,
                       title |-> plan_row.title,
                       steps |-> [i \in 1 .. Len(step_rows) |->
                                     _serialize_step_row(step_rows[i])]])
              /\ UNCHANGED dbvars
              /\ UNCHANGED runvars

\* An approval event that records the daemon as its source.
approval_event_by_daemon(evs, session_id, event_type, summary, req) ==
    _insert_event(evs, session_id, NULL, event_type, summary, "", "daemon", None)

\* The event of an approval: source and user_id are those of the request.
approval_event(evs, session_id, event_type, summary, req) ==
    _insert_event(evs, session_id, NULL, event_type, summary, "", req.source,
                  req.approved_by)

ApprovalRow(session_id, plan_id, step_id, approval_type, req) ==
    [id |-> Cardinality(approvals) + 1, session_id |-> session_id, plan_id |-> plan_id,
     step_id |-> step_id, approval_type |-> approval_type,
     source |-> req.source, user_id |-> req.approved_by]

\* POST /api/v1/sessions/{session_id}/plans/{version}/approve
approve_plan(session_id, version, req) ==
    /\ LET request == [version |-> version, body |-> req]
       IN  IF session_id \notin DOMAIN sessions
           THEN Refuse("approve_plan", session_id, request, 404, "session not found")
           ELSE IF _fetch_plan(session_id, version) = {}
           THEN Refuse("approve_plan", session_id, request, 404, "plan not found")
           ELSE
             LET plan_row == CHOOSE p \in _fetch_plan(session_id, version) : TRUE
             IN  /\ approvals' = approvals \cup
                        {ApprovalRow(session_id, plan_row.id, NULL, "plan", req)}
                 /\ sessions' = [sessions EXCEPT ![session_id].status = "awaiting_step_approval"]
                 /\ events' = approval_event(events, session_id, "plan_approved",
                                             "plan v" \o ToString(version) \o " approved",
                                             req)
                 /\ last' = Response("approve_plan", session_id, request, 200, None,
                                     [session_id |-> session_id, version |-> version,
                                      approved |-> TRUE])
                 /\ UNCHANGED <<plans, steps, runs, artifacts, step_seq, workspace, submitted>>
                 /\ UNCHANGED runvars

\* POST /api/v1/sessions/{session_id}/steps/{step_id}/approve
approve_step(session_id, step_id, req) ==
    /\ LET request == [step_id |-> step_id, body |-> req]
       IN  IF session_id \notin DOMAIN sessions
           THEN Refuse("approve_step", session_id, request, 404, "session not found")
           ELSE IF _fetch_step(session_id, step_id) = {}
           THEN Refuse("approve_step", session_id, request, 404, "step not found")
           ELSE
             LET step_row == CHOOSE st \in _fetch_step(session_id, step_id) : TRUE
             IN  /\ approvals' = approvals \cup
                        {ApprovalRow(session_id, step_row.plan_id, step_row.id, "step", req)}
                 /\ steps' = (steps \ {step_row})
                             \cup {[step_row EXCEPT !.status = "awaiting_step_approval"]}
                 /\ events' = approval_event(events, session_id, "step_approved",
                                             "step " \o step_id \o " approved", req)
                 /\ last' = Response("approve_step", session_id, request, 200, None,
                                     [session_id |-> session_id, step_id |-> step_id,
                                      approved |-> TRUE])
                 /\ UNCHANGED <<sessions, plans, runs, artifacts, step_seq, workspace, submitted>>
                 /\ UNCHANGED runvars

\* The two approval queries of execute_step.
plan_approved(session_id, step_row) ==
    \E a \in approvals : /\ a.session_id = session_id
                         /\ a.plan_id = step_row.plan_id
                         /\ a.approval_type = "plan"

step_approved(session_id, step_row) ==
    \E a \in approvals : /\ a.session_id = session_id
                         /\ a.step_id = step_row.id
                         /\ a.approval_type = "step"

\* A gate that refuses only when both approvals are missing.
approval_missing_both(session_id, step_row) ==
    ~plan_approved(session_id, step_row) /\ ~step_approved(session_id, step_row)

\* if plan_approved is None or step_approved is None: raise HTTPException(409)
approval_missing(session_id, step_row) ==
    ~plan_approved(session_id, step_row) \/ ~step_approved(session_id, step_row)

\* The Run of execute_step after its three transitions to running; none of
\* them raises.
RunningRun ==
    transition_run(
        transition_run(
            transition_run(NewRun, "awaiting_plan_approval", None, 1).run,
            "awaiting_step_approval", None, 2).run,
        "running", None, 3).run

\* A handler that records every failure under the default reason.
FinishedRunDefaultReason(result) ==
    IF result.status = "succeeded"
    THEN transition_run(RunningRun, "succeeded", None, 4).run
    ELSE transition_run(RunningRun, "failed", "tool_failed", 4).run

\* The Run after the tool has returned result.
FinishedRun(result) ==
    IF result.status = "succeeded"
    THEN transition_run(RunningRun, "succeeded", None, 4).run
    ELSE transition_run(RunningRun, "failed",
                        IF Falsy(result.error) THEN "tool_failed" ELSE result.error, 4).run

\* The session status execute_step writes, from the steps as it has updated
\* them.
rollup_status(step_status, plan_id, step_rows) ==
    IF step_status = "failed" THEN "failed"
    ELSE IF {st \in step_rows : st.plan_id = plan_id /\ st.status # "succeeded"} = {}
    THEN "succeeded"
    ELSE "awaiting_step_approval"

\* artifacts_root / f"run_{run_id}_{index}_{safe_name}", relative to the
\* project root.
ArtifactPath(session_id, run_id, index, name) ==
    "data/sessions/" \o session_id \o "/artifacts/run_" \o ToString(run_id)
        \o "_" \o ToString(index) \o "_" \o name

RECURSIVE artifact_events(_, _, _, _)
artifact_events(evs, session_id, run_id, paths) ==
    IF paths = <<>> THEN evs
    ELSE artifact_events(
            _insert_event(evs, session_id, run_id, "artifact_saved",
                          "artifact saved: " \o Head(paths), Head(paths), "daemon", None),
            session_id, run_id, Tail(paths))

\* _ensure_session_paths: <data_root>/sessions/<session_id>/workspace
workspace_root_of(session_id) == "data/sessions/" \o session_id \o "/workspace"

\* runtime_inputs = dict(step_inputs);
\* runtime_inputs.setdefault("workspace_root", str(workspace_root))
runtime_inputs(session_id, step_inputs) ==
    IF Has(step_inputs, "workspace_root") THEN step_inputs
    ELSE step_inputs @@ [workspace_root |-> workspace_root_of(session_id)]

\* The sessions whose workspace is the directory: the tools of a step work
\* on their memo.txt.  A directory that is no session's workspace is not
\* part of the state.
workspace_owners(workspace_root) ==
    {s \in DOMAIN workspace : workspace_root_of(s) = workspace_root}

\* memo.txt of the directory.
workspace_file(workspace_root) ==
    IF workspace_owners(workspace_root) = {} THEN NoFile
    ELSE workspace[CHOOSE s \in workspace_owners(workspace_root) : TRUE]

\* The workspaces after the tool has left memo.txt of the directory as file.
workspace_written(workspace_root, file) ==
    [s \in DOMAIN workspace |->
        IF s \in workspace_owners(workspace_root) THEN file ELSE workspace[s]]

\* POST /api/v1/sessions/{session_id}/steps/{step_id}/execute.  The handler
\* takes no body: a confirm_high_risk the client sends is not read.
execute_step(session_id, step_id, body) ==
    /\ LET request == [step_id |-> step_id, body |-> body]
       IN  IF session_id \notin DOMAIN sessions
           THEN Refuse("execute_step", session_id, request, 404, "session not found")
           ELSE IF _fetch_step(session_id, step_id) = {}
           THEN Refuse("execute_step", session_id, request, 404, "step not found")
           ELSE
             LET step_row == CHOOSE st \in _fetch_step(session_id, step_id) : TRUE
             IN  IF approval_missing(session_id, step_row)
                 THEN Refuse("execute_step", session_id, request, 409,
                             "plan and step approvals are required before execution")
                 ELSE
                   LET inputs == runtime_inputs(session_id,
                                    _parse_step_payload(step_row.payload_json).inputs)
                       result == execute(step_row.tool_name, inputs,
                                         workspace_file(inputs.workspace_root))
                       final == FinishedRun(result)
                       step_status == final.status
                       run_id == Cardinality(runs) + 1
                       saved == [i \in 1 .. Len(result.artifacts) |->
                                    ArtifactPath(session_id, run_id, i,
                                                 result.artifacts[i].name)]
                       updated == (steps \ {step_row})
                                  \cup {[step_row EXCEPT !.status = step_status]}
                   IN  /\ workspace' = workspace_written(inputs.workspace_root, result.file)
                       /\ runs' = runs \cup
                            {[id |-> run_id, session_id |-> session_id,
                              plan_id |-> step_row.plan_id, step_id |-> step_row.id,
                              tool_name |-> step_row.tool_name, status |-> final.status,
                              failure_reason |-> final.failure_reason]}
                       /\ artifacts' = artifacts \cup
                            {[id |-> Cardinality(artifacts) + i, session_id |-> session_id,
                              run_id |-> run_id, step_id |-> step_row.id,
                              kind |-> result.artifacts[i].kind, path |-> saved[i],
                              sha256 |-> _sha256(result.artifacts[i].payload)]
                             : i \in 1 .. Len(result.artifacts)}
                       /\ steps' = updated
                       /\ sessions' = [sessions EXCEPT ![session_id].status =
                                          rollup_status(step_status, step_row.plan_id, updated)]
                       /\ events' = artifact_events(
                            _insert_event(events, session_id, run_id,
                                IF step_status = "succeeded" THEN "step_executed"
                                ELSE "step_failed",
                                IF step_status = "succeeded"
                                THEN "step " \o step_id \o " executed"
                                ELSE "step " \o step_id \o " failed",
                                [tool |-> step_row.tool_name,
                                 runtime_status |-> result.status,
                                 output |-> result.output, error |-> result.error,
                                 artifacts |-> saved],
                                "daemon", None),
                            session_id, run_id, saved)
                       /\ last' = Response("execute_step", session_id, request, 200, None,
                                           [session_id |-> session_id, step_id |-> step_id,
                                            status |-> step_status, run_id |-> run_id,
                                            output |-> result.output,
                                            error |-> result.error, artifacts |-> saved])
                       /\ UNCHANGED <<plans, approvals, step_seq, submitted>>
                       /\ UNCHANGED runvars

(***************************************************************************)
(* execute_step statement by statement, beside the other requests.  The    *)
(* handler reads the session, the step and the approvals and runs the tool *)
(* with no transaction open; sqlite3 opens one at INSERT INTO runs, which  *)
(* takes the write lock of the database file, and the statements up to     *)
(* connection.commit() write the connection's own view tx.db.  An          *)
(* exception on the way leaves through finally: connection.close(), which  *)
(* rolls the transaction back, and the client receives 500.                *)
(***************************************************************************)
\* The tables execute_step writes.
Db == [sessions |-> sessions, steps |-> steps, runs |-> runs,
       artifacts |-> artifacts, events |-> events]

\* Every statement is its own transaction (isolation_level=None).
other_connections_read_autocommit(committed, private) == private

\* The tables the other connections read after a statement of the open
\* transaction, from the committed tables and the transaction's own view.
other_connections_read(committed, private) == committed

Publish(db) ==
    /\ sessions' = db.sessions
    /\ steps' = db.steps
    /\ runs' = db.runs
    /\ artifacts' = db.artifacts
    /\ events' = db.events

\* The transaction holds the write lock: its first INSERT has been executed.
LockHeld == tx.pc \notin {"idle", "insert_run"}

\* Lines 570-624: the reads, the refusals and the tool run.
begin_execute_step(session_id, step_id) ==
    /\ tx.pc = "idle"
    /\ LET request == [step_id |-> step_id, body |-> [confirm_high_risk |-> FALSE]]
       IN  IF session_id \notin DOMAIN sessions
           THEN Refuse("execute_step", session_id, request, 404, "session not found")
           ELSE IF _fetch_step(session_id, step_id) = {}
           THEN Refuse("execute_step", session_id, request, 404, "step not found")
           ELSE
             LET step_row == CHOOSE st \in _fetch_step(session_id, step_id) : TRUE
             IN  IF approval_missing(session_id, step_row)
                 THEN Refuse("execute_step", session_id, request, 409,
                             "plan and step approvals are required before execution")
                 ELSE
                   LET inputs == runtime_inputs(session_id,
                                    _parse_step_payload(step_row.payload_json).inputs)
                       result == execute(step_row.tool_name, inputs,
                                         workspace_file(inputs.workspace_root))
                   IN  /\ workspace' = workspace_written(inputs.workspace_root, result.file)
                       /\ tx' = [NoTx EXCEPT !.pc = "insert_run",
                                             !.session_id = session_id,
                                             !.step_id = step_id,
                                             !.step_row = <<step_row>>,
                                             !.result = <<result>>]
                       /\ UNCHANGED <<sessions, plans, steps, approvals, runs, artifacts,
                                      events, step_seq, submitted, last>>
                       /\ UNCHANGED <<run, clock, outcome, toolvars, clientvars>>

\* The handler leaves by an exception: the transaction is rolled back.
rollback_execute_step ==
    /\ tx' = NoTx
    /\ last' = Response("execute_step", tx.session_id,
                        [step_id |-> tx.step_id, body |-> [confirm_high_risk |-> FALSE]],
                        500, "Internal Server Error", NoBody)
    /\ UNCHANGED dbvars
    /\ UNCHANGED <<run, clock, outcome, toolvars, clientvars>>

\* The statement has been executed on the transaction's view.
Executed(next_pc, db, run_id, saved) ==
    /\ tx' = [tx EXCEPT !.pc = next_pc, !.db = <<db>>, !.run_id = run_id, !.saved = saved]
    /\ Publish(other_connections_read(Db, db))
    /\ UNCHANGED <<plans, approvals, step_seq, workspace, submitted, last>>
    /\ UNCHANGED <<run, clock, outcome, toolvars, clientvars>>

\* Lines 639-662: INSERT INTO runs.  The foreign keys of the row are checked
\* at once: a step or a plan deleted since the handler read them raises
\* IntegrityError.
insert_run ==
    /\ tx.pc = "insert_run"
    /\ LET step_row == tx.step_row[1]
           final == FinishedRun(tx.result[1])
           run_id == Cardinality(runs) + 1
       IN  IF \/ \A st \in steps : st.id # step_row.id
              \/ \A p \in plans : p.id # step_row.plan_id
           THEN rollback_execute_step
           ELSE Executed("insert_artifacts",
                         [Db EXCEPT !.runs = @ \cup
                            {[id |-> run_id, session_id |-> tx.session_id,
                              plan_id |-> step_row.plan_id, step_id |-> step_row.id,
                              tool_name |-> step_row.tool_name, status |-> final.status,
                              failure_reason |-> final.failure_reason]}],
                         run_id, <<>>)

\* Lines 664-693: the artifact files and their rows.
insert_artifacts ==
    /\ tx.pc = "insert_artifacts"
    /\ LET result == tx.result[1]
           saved == [i \in 1 .. Len(result.artifacts) |->
                        ArtifactPath(tx.session_id, tx.run_id, i, result.artifacts[i].name)]
       IN  Executed("update_step",
                    [tx.db[1] EXCEPT !.artifacts = @ \cup
                        {[id |-> Cardinality(artifacts) + i, session_id |-> tx.session_id,
                          run_id |-> tx.run_id, step_id |-> tx.step_row[1].id,
                          kind |-> result.artifacts[i].kind, path |-> saved[i],
                          sha256 |-> _sha256(result.artifacts[i].payload)]
                         : i \in 1 .. Len(result.artifacts)}],
                    tx.run_id, saved)

\* artifact_file.write_text raises OSError.
artifact_write_fails ==
    /\ tx.pc = "insert_artifacts"
    /\ tx.result[1].artifacts # <<>>
    /\ rollback_execute_step

\* Lines 695-702: UPDATE steps SET status.
update_step ==
    /\ tx.pc = "update_step"
    /\ Executed("update_session",
                [tx.db[1] EXCEPT !.steps =
                    {IF st.id = tx.step_row[1].id
                     THEN [st EXCEPT !.status = FinishedRun(tx.result[1]).status]
                     ELSE st : st \in @}],
                tx.run_id, tx.saved)

\* Lines 704-733: the roll-up and UPDATE sessions SET status.
update_session ==
    /\ tx.pc = "update_session"
    /\ Executed("insert_events",
                [tx.db[1] EXCEPT !.sessions[tx.session_id].status =
                    rollup_status(FinishedRun(tx.result[1]).status,
                                  tx.step_row[1].plan_id, tx.db[1].steps)],
                tx.run_id, tx.saved)

\* Lines 735-773: the event of the step and the events of its artifacts.
insert_events ==
    /\ tx.pc = "insert_events"
    /\ LET result == tx.result[1]
           step_status == FinishedRun(result).status
       IN  Executed("commit",
                    [tx.db[1] EXCEPT !.events = artifact_events(
                        _insert_event(@, tx.session_id, tx.run_id,
                            IF step_status = "succeeded" THEN "step_executed"
                            ELSE "step_failed",
                            IF step_status = "succeeded"
                            THEN "step " \o tx.step_id \o " executed"
                            ELSE "step " \o tx.step_id \o " failed",
                            [tool |-> tx.step_row[1].tool_name,
                             runtime_status |-> result.status,
                             output |-> result.output, error |-> result.error,
                             artifacts |-> tx.saved],
                            "daemon", None),
                        tx.session_id, tx.run_id, tx.saved)],
                    tx.run_id, tx.saved)

\* Lines 774-783: connection.commit() and the response.
commit_execute_step ==
    /\ tx.pc = "commit"
    /\ Publish(tx.db[1])
    /\ tx' = NoTx
    /\ last' = Response("execute_step", tx.session_id,
                        [step_id |-> tx.step_id, body |-> [confirm_high_risk |-> FALSE]],
                        200, None,
                        [session_id |-> tx.session_id, step_id |-> tx.step_id,
                         status |-> FinishedRun(tx.result[1]).status,
                         run_id |-> tx.run_id,
                         output |-> tx.result[1].output,
                         error |-> tx.result[1].error, artifacts |-> tx.saved])
    /\ UNCHANGED <<plans, approvals, step_seq, workspace, submitted>>
    /\ UNCHANGED <<run, clock, outcome, toolvars, clientvars>>

\* A stop that refuses a session that is already cancelled.
stop_session_once(session_id) ==
    /\ IF session_id \notin DOMAIN sessions
       THEN Refuse("stop_session", session_id, NoRequest, 404, "session not found")
       ELSE IF sessions[session_id].status = "cancelled"
       THEN Refuse("stop_session", session_id, NoRequest, 409, "session is already cancelled")
       ELSE /\ sessions' = [sessions EXCEPT ![session_id].status = "cancelled"]
            /\ events' = _insert_event(events, session_id, NULL, "session_stopped",
                                       "session stopped", "", "daemon", None)
            /\ last' = Response("stop_session", session_id, NoRequest, 200, None,
                                [session_id |-> session_id, status |-> "cancelled"])
            /\ UNCHANGED <<plans, steps, approvals, runs, artifacts, step_seq,
                           workspace, submitted>>
            /\ UNCHANGED runvars

\* POST /api/v1/sessions/{session_id}/stop
stop_session(session_id) ==
    /\ IF session_id \notin DOMAIN sessions
       THEN Refuse("stop_session", session_id, NoRequest, 404, "session not found")
       ELSE /\ sessions' = [sessions EXCEPT ![session_id].status = "cancelled"]
            /\ events' = _insert_event(events, session_id, NULL, "session_stopped",
                                       "session stopped", "", "daemon", None)
            /\ last' = Response("stop_session", session_id, NoRequest, 200, None,
                                [session_id |-> session_id, status |-> "cancelled"])
            /\ UNCHANGED <<plans, steps, approvals, runs, artifacts, step_seq,
                           workspace, submitted>>
            /\ UNCHANGED runvars

\* The rows of a query ORDER BY id DESC, from rows in id order.
RECURSIVE Newest(_, _)
Newest(rows, limit) ==
    IF rows = <<>> \/ limit = 0 THEN <<>>
    ELSE <<rows[Len(rows)]>> \o Newest(SubSeq(rows, 1, Len(rows) - 1), limit - 1)

\* GET /api/v1/sessions/{session_id}/events/search without q: the latest
\* events of the session.
SearchLimit == 100

search_events(session_id) ==
    IF session_id \notin DOMAIN sessions
    THEN Refuse("search_events", session_id, NoRequest, 404, "session not found")
    ELSE /\ last' = Response("search_events", session_id, NoRequest, 200, None,
                [items |-> [i \in 1 .. Len(Newest(SelectSeq(events,
                                    LAMBDA e : e.session_id = session_id), SearchLimit)) |->
                              Newest(SelectSeq(events,
                                    LAMBDA e : e.session_id = session_id), SearchLimit)[i].id]])
         /\ UNCHANGED dbvars
         /\ UNCHANGED runvars

\* json.dumps of a list of strings.
RECURSIVE json_strings(_)
json_strings(strings) ==
    IF strings = <<>> THEN ""
    ELSE "\"" \o Head(strings) \o "\""
         \o (IF Len(strings) = 1 THEN "" ELSE ", " \o json_strings(Tail(strings)))

\* json.dumps of the entries of a ListDirOutput, files all of them.
RECURSIVE json_entries(_)
json_entries(names) ==
    IF names = <<>> THEN ""
    ELSE "{\"name\": \"" \o Head(names) \o "\", \"is_dir\": false}"
         \o (IF Len(names) = 1 THEN "" ELSE ", " \o json_entries(Tail(names)))

\* json.dumps of the output of a read-only tool: null, the output of
\* list_dir or the output of run_shell_readonly.
json_output(output) ==
    IF output = NoOutput THEN "null"
    ELSE IF "entries" \in DOMAIN output
    THEN "{\"path\": \"" \o output.path \o "\", \"entries\": ["
         \o json_entries(output.entries) \o "]}"
    ELSE "{\"command\": \"" \o output.command \o "\", \"exit_code\": "
         \o ToString(output.exit_code) \o ", \"stdout\": \"\", \"stderr\": \"\"}"

\* The column payload_text of an event: for the event of a step the
\* json.dumps of lines 752-761, for the others the text itself.
payload_text_of(event) ==
    IF event.event_type \in {"step_executed", "step_failed"}
    THEN "{\"tool\": \"" \o event.payload_text.tool
         \o "\", \"runtime_status\": \"" \o event.payload_text.runtime_status
         \o "\", \"output\": " \o json_output(event.payload_text.output)
         \o ", \"error\": "
         \o (IF event.payload_text.error = None THEN "null"
             ELSE "\"" \o event.payload_text.error \o "\"")
         \o ", \"artifacts\": [" \o json_strings(event.payload_text.artifacts) \o "]}"
    ELSE event.payload_text

\* LIKE folds the case of the ASCII letters.
UpperCase == "ABCDEFGHIJKLMNOPQRSTUVWXYZ"
LowerCase == "abcdefghijklmnopqrstuvwxyz"

LowerOf ==
    [c \in {SubSeq(UpperCase, i, i) : i \in 1 .. Len(UpperCase)} |->
        LET i == CHOOSE j \in 1 .. Len(UpperCase) : SubSeq(UpperCase, j, j) = c
        IN  SubSeq(LowerCase, i, i)]

lower(c) == IF c \in DOMAIN LowerOf THEN LowerOf[c] ELSE c

\* The text begins with a match of the pattern; _ matches any one character.
\* (A % inside the query is not among the queries of the model.)
RECURSIVE like_prefix(_, _)
like_prefix(text, pattern) ==
    IF pattern = "" THEN TRUE
    ELSE IF text = "" THEN FALSE
    ELSE /\ \/ SubSeq(pattern, 1, 1) = "_"
            \/ lower(SubSeq(pattern, 1, 1)) = lower(SubSeq(text, 1, 1))
         /\ like_prefix(SubSeq(text, 2, Len(text)), SubSeq(pattern, 2, Len(pattern)))

\* text LIKE '%' || q || '%'
like(text, q) ==
    \E i \in 1 .. Len(text) + 1 : like_prefix(SubSeq(text, i, Len(text)), q)

\* GET /api/v1/sessions/{session_id}/events/search?q=... when the MATCH
\* statement raises sqlite3.OperationalError: the events of the session
\* whose summary or payload_text is LIKE the query, newest first.
search_events_like(session_id, q) ==
    IF session_id \notin DOMAIN sessions
    THEN Refuse("search_events", session_id, [q |-> q], 404, "session not found")
    ELSE LET rows == SelectSeq(events,
                        LAMBDA e : /\ e.session_id = session_id
                                   /\ \/ like(e.summary, q)
                                      \/ like(payload_text_of(e), q))
         IN  /\ last' = Response("search_events", session_id, [q |-> q], 200, None,
                            [items |-> [i \in 1 .. Len(rows) |->
                                           Newest(rows, Len(rows))[i].id]])
             /\ UNCHANGED dbvars
             /\ UNCHANGED runvars

(***************************************************************************)
(* calt/storage/sqlite.py: the triggers of the events table.  Each is the  *)
(* journal after a statement on the row with the id: RAISE(ABORT) undoes   *)
(* the statement.                                                          *)
(***************************************************************************)
\* The events table without the trigger: the UPDATE goes through.
events_update_without_trigger(evs, id, summary) ==
    [evs EXCEPT ![id].summary = summary]

trg_events_append_only_update(evs, id, summary) == evs

trg_events_append_only_delete(evs, id) == evs

\* UPDATE events SET summary = ? WHERE id = ?, on a connection of its own.
sql_update_event(id, summary) ==
    /\ id \in 1 .. Len(events)
    /\ events' = trg_events_append_only_update(events, id, summary)
    /\ last' = Response("sql_update_event", None, [id |-> id], 0,
                        IF events' = events THEN "events is append-only" ELSE None, NoBody)
    /\ UNCHANGED <<sessions, plans, steps, approvals, runs, artifacts, step_seq,
                   workspace, submitted>>
    /\ UNCHANGED runvars

\* DELETE FROM events WHERE id = ?
sql_delete_event(id) ==
    /\ id \in 1 .. Len(events)
    /\ events' = trg_events_append_only_delete(events, id)
    /\ last' = Response("sql_delete_event", None, [id |-> id], 0,
                        IF events' = events THEN "events is append-only" ELSE None, NoBody)
    /\ UNCHANGED <<sessions, plans, steps, approvals, runs, artifacts, step_seq,
                   workspace, submitted>>
    /\ UNCHANGED runvars

(***************************************************************************)
(* A Run object driven through transition_run, as the unit tests of the    *)
(* state machine drive it.                                                 *)
(***************************************************************************)
FailureReasons == {None, "", "tool_timeout"}

TransitionRun(next_status, failure_reason) ==
    LET res == transition_run(run, next_status, failure_reason, clock + 1)
    IN  /\ run' = res.run
        /\ clock' = IF res.raised THEN clock ELSE clock + 1
        /\ outcome' = [next_status |-> next_status, failure_reason |-> failure_reason,
                       raised |-> res.raised]
        /\ UNCHANGED dbvars
        /\ UNCHANGED last
        /\ UNCHANGED <<toolvars, tx, clientvars>>

(***************************************************************************)
(* The write tools called directly on the files of a workspace, as the     *)
(* unit tests of the tools call them, the executor called directly, and a  *)
(* write to memo.txt by somebody else.                                     *)
(***************************************************************************)
ToolCall(op, tool, path, content, patch, mode, preview, r) ==
    [op |-> op, tool |-> tool, path |-> path, content |-> content, patch |-> patch, mode |-> mode,
     preview |-> preview,
     error |-> r.error, output |-> r.output,
     status |-> IF r.error = None THEN "succeeded" ELSE "failed",
     artifacts |-> IF "artifacts" \in DOMAIN r THEN r.artifacts ELSE <<>>,
     command |-> "",
     process |-> IF "process" \in DOMAIN r THEN r.process ELSE <<>>]

\* The previews a caller passes to an apply: none, the one it holds, or the
\* one it holds with another new_sha256.
PreviewChoices ==
    {<<>>} \cup (IF held = <<>> THEN {}
                 ELSE {<<held[1].preview>>,
                       <<[held[1].preview EXCEPT !.new_sha256 = _sha256(Text(<<"invalid">>, FALSE))]>>})

WriteFilePreview(path, content) ==
    LET r == write_file_preview(path, content, fs[TargetOf(path)])
    IN  /\ fs' = [fs EXCEPT ![TargetOf(path)] = r.file]
        /\ call' = ToolCall("write_file_preview", "write_file_preview", path, content, NoPatch, "", <<>>, r)
        /\ held' = IF r.error # None THEN held
                   ELSE <<[op |-> "write_file_preview", path |-> path, content |-> content,
                           patch |-> NoPatch, preview |-> r.output,
                           file |-> fs[TargetOf(path)]]>>
        /\ UNCHANGED <<dbvars, last, run, clock, outcome, tx, clientvars, worker>>

WriteFileApply(path, content, preview) ==
    LET r == write_file_apply(path, content, preview, fs[TargetOf(path)])
    IN  /\ fs' = [fs EXCEPT ![TargetOf(path)] = r.file]
        /\ call' = ToolCall("write_file_apply", "write_file_apply", path, content, NoPatch, "", preview, r)
        /\ UNCHANGED <<dbvars, last, run, clock, outcome, tx, clientvars, held, worker>>

ApplyPatch(patch, mode, preview) ==
    LET r == apply_patch(patch, mode, preview, fs[TargetOf(patch.path)])
    IN  /\ fs' = [fs EXCEPT ![TargetOf(patch.path)] = r.file]
        /\ call' = ToolCall("apply_patch", "apply_patch", patch.path, EmptyText, patch, mode, preview, r)
        /\ held' = IF r.error # None \/ mode # "preview" THEN held
                   ELSE <<[op |-> "apply_patch", path |-> patch.path, content |-> EmptyText,
                           patch |-> patch, preview |-> r.output,
                           file |-> fs[TargetOf(patch.path)]]>>
        /\ UNCHANGED <<dbvars, last, run, clock, outcome, tx, clientvars, worker>>

\* StepExecutor().execute(tool=..., inputs=..., timeout=30) on memo.txt
Execute(tool, inputs) ==
    LET r == execute(tool, inputs, fs[TargetOf(InsidePath)])
    IN  /\ fs' = [fs EXCEPT ![TargetOf(InsidePath)] = r.file]
        /\ call' = [ToolCall("execute", tool, InsidePath,
                             IF Has(inputs, "content") THEN inputs.content ELSE EmptyText,
                             IF Has(inputs, "patch") THEN inputs.patch ELSE NoPatch,
                             IF Has(inputs, "mode") THEN inputs.mode ELSE "",
                             GetPreview(inputs), r)
                       EXCEPT !.command = IF Has(inputs, "command") THEN inputs.command
                                          ELSE ""]
        /\ UNCHANGED <<dbvars, last, run, clock, outcome, tx, clientvars, held, worker>>

\* READONLY_TOOLS["run_shell_readonly"].invoke({"command": command, ...})
RunShellReadonly(command) ==
    LET r == run_shell_readonly(command, fs[TargetOf(InsidePath)])
    IN  /\ call' = [ToolCall("run_shell_readonly", "run_shell_readonly", InsidePath,
                             EmptyText, NoPatch, "", <<>>, r)
                       EXCEPT !.command = command]
        /\ UNCHANGED <<dbvars, last, run, clock, outcome, tx, clientvars, fs, held, worker>>

\* Somebody else writes memo.txt.
OtherWrite(content) ==
    /\ fs[TargetOf(InsidePath)] # FileWith(content)
    /\ fs' = [fs EXCEPT ![TargetOf(InsidePath)] = FileWith(content)]
    /\ call' = [NoCall EXCEPT !.op = "other_write"]
    /\ UNCHANGED <<dbvars, last, run, clock, outcome, tx, clientvars, held, worker>>

(***************************************************************************)
(* StepExecutor.execute in time.  The handler runs on the one thread of a  *)
(* ThreadPoolExecutor created in a with statement; the caller waits in     *)
(* future.result(timeout=bounded_timeout), and leaves the with statement   *)
(* through ThreadPoolExecutor.__exit__, which is shutdown(wait=True): it   *)
(* joins the worker thread.  Time is counted in seconds; a handler takes   *)
(* duration seconds and then returns or raises, or it never returns.       *)
(***************************************************************************)
\* The seconds the model lets pass in one call.
MaxHandlerSeconds == 4

\* The timeouts the callers pass, the clamped 0 among them.
Timeouts == 0 .. 2

\* max(1, int(timeout))
bounded(timeout) == IF timeout < 1 THEN 1 ELSE timeout

\* The worker thread has left the handler.
HandlerDone == worker.returns /\ worker.elapsed >= worker.duration

\* executor.submit(self._invoke, ...): the handler starts on the worker, in
\* the first call or after the call before has returned.
Submit(timeout, duration, returns, raises) ==
    /\ worker.pc \in {"idle", "returned"}
    /\ worker' = [NoWorker EXCEPT !.pc = "waiting", !.bounded_timeout = bounded(timeout),
                                  !.duration = duration, !.returns = returns,
                                  !.raises = raises]
    /\ UNCHANGED <<dbvars, last, run, clock, outcome, tx, clientvars, fs, call, held>>

\* A second passes while the caller waits for the future or for the thread.
Tick ==
    /\ worker.pc \in {"waiting", "shutdown"}
    /\ ~HandlerDone
    /\ worker.pc = "waiting" => worker.elapsed < worker.bounded_timeout
    /\ worker.elapsed < MaxHandlerSeconds
    /\ worker' = [worker EXCEPT !.elapsed = @ + 1]
    /\ UNCHANGED <<dbvars, last, run, clock, outcome, tx, clientvars, fs, call, held>>

\* future.result(timeout=bounded_timeout) returns the output, raises the
\* exception of the handler, or raises TimeoutError when the budget is spent.
FutureResult ==
    /\ worker.pc = "waiting"
    /\ \/ /\ HandlerDone
          /\ worker' = [worker EXCEPT
                            !.pc = "shutdown",
                            !.status = IF worker.raises THEN "failed" ELSE "succeeded",
                            !.error = IF worker.raises THEN "handler error" ELSE None]
       \/ /\ worker.elapsed >= worker.bounded_timeout
          /\ worker' = [worker EXCEPT
                            !.pc = "shutdown", !.timed_out = TRUE, !.status = "failed",
                            !.error = "tool timeout after "
                                      \o ToString(worker.bounded_timeout) \o "s"]
    /\ UNCHANGED <<dbvars, last, run, clock, outcome, tx, clientvars, fs, call, held>>

\* ThreadPoolExecutor.__exit__: shutdown(wait=True) joins the worker thread,
\* then the except clause or the return statement builds the StepRunResult.
ExitWith ==
    /\ worker.pc = "shutdown"
    /\ HandlerDone
    /\ worker' = [worker EXCEPT !.pc = "returned"]
    /\ UNCHANGED <<dbvars, last, run, clock, outcome, tx, clientvars, fs, call, held>>

NextTimeout ==
    \/ \E timeout \in Timeouts, duration \in 0 .. MaxHandlerSeconds,
          returns \in BOOLEAN, raises \in BOOLEAN :
            Submit(timeout, duration, returns, raises)
    \/ Tick
    \/ FutureResult
    \/ ExitWith

SpecTimeout == Init /\ [][NextTimeout]_vars

(***************************************************************************)
(* calt/discord_bot/service.py.  The service is built with the allowlist   *)
(* of user ids and a client; discord.calls are the calls the client has    *)
(* received, in their order, each the method and its keyword arguments.    *)
(***************************************************************************)
\* DiscordBotService(client=client, allowed_user_ids={42, 43})
AllowedUserIds == {42, 43}

\* The users that send commands: the allowed ones and one that is not.
DiscordUserIds == {7, 42, 43}

\* The calls the model lets the client receive.
MaxDiscordCalls == 3

\* An authorization that lets every user pass.
_authorize_raises_nobody(user_id) == FALSE

\* _authorize raises DiscordAuthorizationError.
_authorize_raises(user_id) == user_id \notin AllowedUserIds

\* A method of the service: self._authorize(user_id), then the one call of
\* the client, awaited and returned.
ServiceMethod(op, user_id, method, kwargs) ==
    /\ discord' =
          IF _authorize_raises(user_id)
          THEN [discord EXCEPT !.op = op, !.user_id = user_id,
                               !.raised = "user " \o ToString(user_id) \o " is not allowed"]
          ELSE [calls |-> Append(discord.calls, [method |-> method, kwargs |-> kwargs]),
                op |-> op, user_id |-> user_id, raised |-> None]
    /\ UNCHANGED <<dbvars, last, run, clock, outcome, tx, toolvars, doctor, flow>>

session_create(user_id, goal) ==
    ServiceMethod("session_create", user_id, "create_session", [goal |-> goal])

plan_show(user_id, session_id, version) ==
    ServiceMethod("plan_show", user_id, "get_plan",
                  [session_id |-> session_id, version |-> version])

step_approve(user_id, session_id, step_id) ==
    ServiceMethod("step_approve", user_id, "approve_step",
                  [session_id |-> session_id, step_id |-> step_id,
                   approved_by |-> ToString(user_id), source |-> "discord"])

step_execute(user_id, session_id, step_id) ==
    ServiceMethod("step_execute", user_id, "execute_step",
                  [session_id |-> session_id, step_id |-> step_id])

session_stop(user_id, session_id) ==
    ServiceMethod("session_stop", user_id, "stop_session", [session_id |-> session_id])

logs_search(user_id, session_id, q) ==
    ServiceMethod("logs_search", user_id, "search_events",
                  [session_id |-> session_id, q |-> q])

artifacts_list(user_id, session_id) ==
    ServiceMethod("artifacts_list", user_id, "list_artifacts", [session_id |-> session_id])

tools_permissions(user_id, tool_name) ==
    ServiceMethod("tools_permissions", user_id, "get_tool_permissions",
                  [tool_name |-> tool_name])

\* The client may receive another call.
MayCall == Len(discord.calls) < MaxDiscordCalls

NextDiscord ==
    \E user_id \in DiscordUserIds :
        \/ MayCall /\ session_create(user_id, "demo")
        \/ MayCall /\ plan_show(user_id, "session-1", 1)
        \/ MayCall /\ step_approve(user_id, "session-1", "step_001")
        \/ MayCall /\ step_execute(user_id, "session-1", "step_001")
        \/ MayCall /\ session_stop(user_id, "session-1")
        \/ MayCall /\ logs_search(user_id, "session-1", "error")
        \/ MayCall /\ artifacts_list(user_id, "session-1")
        \/ MayCall /\ tools_permissions(user_id, "read_file")

SpecDiscord == Init /\ [][NextDiscord]_vars

(***************************************************************************)
(* calt/cli/app.py: the doctor command.  A run is one call of              *)
(* _run_doctor_operation with the settings of the command line, against a  *)
(* daemon of which the methods in failing raise and the others answer;     *)
(* doctor.calls are the methods of the client the run has called.          *)
(***************************************************************************)
_doctor_check(name, status, detail) == [name |-> name, status |-> status, detail |-> detail]

\* str.strip() of a text of letters and spaces.
RECURSIVE strip(_)
strip(text) ==
    IF text = "" THEN ""
    ELSE IF SubSeq(text, 1, 1) = " " THEN strip(SubSeq(text, 2, Len(text)))
    ELSE IF SubSeq(text, Len(text), Len(text)) = " "
    THEN strip(SubSeq(text, 1, Len(text) - 1))
    ELSE text

\* The checks skipped for a reason, in the order of the names.
skipped(names, reason) ==
    [i \in 1 .. Len(names) |-> _doctor_check(names[i], "skip", reason)]

\* _doctor_probe: the check of one call of the client.
_doctor_probe(name, method, failing) ==
    IF method \in failing THEN _doctor_check(name, "fail", "_doctor_error_detail(exc)")
    ELSE _doctor_check(name, "pass", "success_detail")

\* The checks after base_url and token when the base URL is valid.
probed_checks(failing, tools_empty) ==
    <<_doctor_probe("daemon_connectivity", "list_tools", failing),
      IF "list_tools" \in failing \/ tools_empty
      THEN _doctor_check("tools_permissions", "warn", "tool list is empty")
      ELSE _doctor_probe("tools_permissions", "get_tool_permissions", failing),
      _doctor_probe("session_create", "create_session", failing)>>
    \o (IF "create_session" \in failing
        THEN skipped(<<"plan_import", "plan_approve", "step_approve", "step_execute",
                       "logs_search", "artifacts_list", "session_stop">>,
                     "session_create failed")
        ELSE <<_doctor_probe("plan_import", "import_plan", failing)>>
             \o (IF "import_plan" \in failing
                 THEN skipped(<<"plan_approve", "step_approve", "step_execute">>,
                              "plan_import failed")
                 ELSE <<_doctor_probe("plan_approve", "approve_plan", failing),
                        _doctor_probe("step_approve", "approve_step", failing),
                        _doctor_probe("step_execute", "execute_step", failing)>>)
             \o <<_doctor_probe("logs_search", "search_events", failing),
                  _doctor_probe("artifacts_list", "list_artifacts", failing),
                  _doctor_probe("session_stop", "stop_session", failing)>>)

\* The methods of the client those checks have called, in their order.
probed_calls(failing, tools_empty) ==
    <<"list_tools">>
    \o (IF "list_tools" \in failing \/ tools_empty THEN <<>>
        ELSE <<"get_tool_permissions">>)
    \o <<"create_session">>
    \o (IF "create_session" \in failing THEN <<>>
        ELSE <<"import_plan">>
             \o (IF "import_plan" \in failing THEN <<>>
                 ELSE <<"approve_plan", "approve_step", "execute_step">>)
             \o <<"search_events", "list_artifacts", "stop_session">>)

\* _doctor_finalize_payload: ok is that no check has failed.
_doctor_finalize_payload(checks) ==
    \A i \in 1 .. Len(checks) : checks[i].status # "fail"

\* _run_doctor_operation
_run_doctor_operation(base_url_ok, token, failing, tools_empty) ==
    LET token_ok == strip(token) # ""
        first == <<_doctor_check("base_url", IF base_url_ok THEN "pass" ELSE "fail",
                                 IF base_url_ok THEN "http://daemon.local"
                                 ELSE "unsupported scheme: (missing)"),
                   _doctor_check("token", IF token_ok THEN "pass" ELSE "fail",
                                 IF token_ok THEN "configured" ELSE "empty")>>
        checks == IF ~base_url_ok
                  THEN first \o skipped(<<"daemon_connectivity", "tools_permissions",
                                          "session_create", "plan_import", "plan_approve",
                                          "step_approve", "step_execute", "logs_search",
                                          "artifacts_list", "session_stop">>,
                                        "base_url is invalid")
                  ELSE first \o probed_checks(failing, tools_empty)
    IN  /\ doctor' = [base_url_ok |-> base_url_ok, token |-> token, checks |-> checks,
                      calls |-> IF ~base_url_ok THEN <<>>
                                ELSE probed_calls(failing, tools_empty),
                      ok |-> _doctor_finalize_payload(checks)]
        /\ UNCHANGED <<dbvars, last, run, clock, outcome, tx, toolvars, discord, flow>>

\* The methods of the client the doctor calls.
DoctorMethods ==
    {"list_tools", "get_tool_permissions", "create_session", "import_plan",
     "approve_plan", "approve_step", "execute_step", "search_events", "list_artifacts",
     "stop_session"}

\* The daemons: none, one or two of the methods raise, or all of them do.
FailingSets ==
    {failing \in SUBSET DoctorMethods : Cardinality(failing) <= 2} \cup {DoctorMethods}

Tokens == {"", "  ", "test-token"}

NextDoctor ==
    \E base_url_ok \in BOOLEAN, token \in Tokens, failing \in FailingSets,
       tools_empty \in BOOLEAN :
        _run_doctor_operation(base_url_ok, token, failing, tools_empty)

SpecDoctor == Init /\ [][NextDoctor]_vars

(***************************************************************************)
(* The requests of the model.                                              *)
(***************************************************************************)
\* The step keys the clients address.
StepKeys2 == {"step_a", "step_b"}
StepKeys3 == {"step_a", "step_b", "step_c"}

ApprovalBody == [approved_by |-> "user_1", source |-> "integration"]

ExecuteBodies == {[confirm_high_risk |-> FALSE], [confirm_high_risk |-> TRUE]}

SessionBody(mode, safety_profile) ==
    [goal |-> "demo", mode |-> mode, safety_profile |-> safety_profile]

PlanStep(id, tool, inputs, risk) ==
    [id |-> id, title |-> tool, tool |-> tool, inputs |-> inputs,
     timeout_sec |-> 30, risk |-> risk]

PlanBody(version, title, session_goal, step_list) ==
    [version |-> version, title |-> title, session_goal |-> session_goal,
     steps |-> step_list]

\* list_dir succeeds; "echo blocked" is not on the allowlist and fails.
ListStep(id, risk) == PlanStep(id, "list_dir", [path |-> "."], risk)
BlockedStep(id) == PlanStep(id, "run_shell_readonly", [command |-> "echo blocked"], "low")

BasePlans ==
    {PlanBody(1, "two steps", None, <<ListStep("step_a", "low"), BlockedStep("step_b")>>),
     PlanBody(2, "one step", "recover", <<ListStep("step_a", "high")>>)}

BaseSessions == {SessionBody("normal", "strict")}

\* The handlers of the approval protocol, called with the requests of
\* session_bodies and plan_bodies, on the step keys, while the events table
\* has fewer than max_events rows.
Handlers(max_events, session_bodies, plan_bodies, keys) ==
    \/ \E req \in session_bodies : Len(events) < max_events /\ create_session(req)
    \/ \E i \in 1 .. Len(SessionIds) :
        \/ \E req \in plan_bodies :
              Len(events) < max_events /\ import_plan(SessionIds[i], req)
        \/ \E v \in Versions :
              Len(events) < max_events /\ approve_plan(SessionIds[i], v, ApprovalBody)
        \/ \E k \in keys :
              Len(events) < max_events /\ approve_step(SessionIds[i], k, ApprovalBody)
        \/ \E k \in keys, body \in ExecuteBodies :
              Len(events) < max_events /\ execute_step(SessionIds[i], k, body)

\* The handlers, while the events table has fewer than MaxEvents rows.
Protocol(session_bodies, plan_bodies, keys) ==
    Handlers(MaxEvents, session_bodies, plan_bodies, keys)

\* The other handlers, and the statements on the events table.
Others ==
    \/ \E i \in 1 .. Len(SessionIds) :
        \/ get_session(SessionIds[i])
        \/ Len(events) < MaxEvents /\ stop_session(SessionIds[i])
        \/ search_events(SessionIds[i])
    \/ \E id \in {Len(events)} : sql_update_event(id, "updated")
    \/ \E id \in {Len(events)} : sql_delete_event(id)

(***************************************************************************)
(* The requests of the plan round trip and of the step input references:   *)
(* steps that leave inputs or timeout_sec to their defaults, and a step    *)
(* whose preview is the placeholder of another step's output.              *)
(***************************************************************************)
Placeholder(key) == "${steps." \o key \o ".output}"

\* list_dir of the workspace root, inputs omitted.
NoInputsStep(id, timeout_sec) ==
    [id |-> id, title |-> "list", tool |-> "list_dir", timeout_sec |-> timeout_sec]

\* write_file_preview of the text on memo.txt, timeout_sec omitted.
WritePreviewStep(id, text) ==
    [id |-> id, title |-> "preview", tool |-> "write_file_preview",
     inputs |-> [path |-> InsidePath, content |-> text]]

\* write_file_apply of the text on memo.txt, its preview the output of the
\* step named key.
ApplyReferencedStep(id, text, key) ==
    [id |-> id, title |-> "apply", tool |-> "write_file_apply",
     inputs |-> [path |-> InsidePath, content |-> text,
                 preview |-> Str(Placeholder(key))],
     timeout_sec |-> 120]

ReferencePlan(version) ==
    PlanBody(version, "preview then apply", None,
             <<WritePreviewStep("step_a", Text(<<"v2">>, TRUE)),
               ApplyReferencedStep("step_b", Text(<<"v2">>, TRUE), "step_a")>>)

\* Version 1 has the step step_a alone; version 2 has a step of that key
\* and another one; a third request asks for a timeout above 120 seconds.
PlanPlans ==
    {PlanBody(1, "one step", None, <<NoInputsStep("step_a", 5)>>),
     ReferencePlan(2),
     PlanBody(1, "too slow", None, <<NoInputsStep("step_a", 121)>>)}

(***************************************************************************)
(* The requests of the write tools: sessions in strict profile and in      *)
(* dry_run mode, and plans that write memo.txt.                            *)
(***************************************************************************)
\* The preview write_file_preview returns for a text while memo.txt does not
\* exist; it is stale once the file has been written.
PreviewOnEmpty(text) == _build_preview_payload(InsidePath, EmptyText, text)

WriteApplyStep(id, text) ==
    PlanStep(id, "write_file_apply", [path |-> InsidePath, content |-> text], "low")

WriteApplyWithPreviewStep(id, text, preview) ==
    PlanStep(id, "write_file_apply",
             [path |-> InsidePath, content |-> text, preview |-> preview], "low")

\* A patch that adds the lines at the top of memo.txt.
PatchApplyStep(id, new_lines) ==
    PlanStep(id, "apply_patch",
             [patch |-> [path |-> InsidePath, old |-> <<>>, new |-> new_lines],
              mode |-> "apply"], "low")

UnknownToolStep(id) == PlanStep(id, "deploy", [target |-> "prod"], "low")

WritePlans ==
    {PlanBody(1, "write twice", None,
              <<WriteApplyStep("step_a", Text(<<"v1">>, TRUE)),
                WriteApplyWithPreviewStep("step_b", Text(<<"v2">>, TRUE),
                                          PreviewOnEmpty(Text(<<"v2">>, TRUE)))>>),
     PlanBody(2, "patch", None,
              <<PatchApplyStep("step_a", <<"v1">>), UnknownToolStep("step_b"),
                BlockedStep("step_c")>>)}

WriteSessions == {SessionBody("normal", "strict"), SessionBody("dry_run", "dev")}

Next == Protocol(BaseSessions, BasePlans, StepKeys2) \/ Others

Spec == Init /\ [][Next]_vars

NextRun == \E next_status \in WorkflowStatus, failure_reason \in FailureReasons :
               TransitionRun(next_status, failure_reason)

SpecRun == Init /\ [][NextRun]_vars

NextWrite == Protocol(WriteSessions, WritePlans, StepKeys3)

SpecWrite == Init /\ [][NextWrite]_vars

NextPlan ==
    \/ Protocol(BaseSessions, PlanPlans, StepKeys2)
    \/ \E i \in 1 .. Len(SessionIds), v \in Versions : get_plan(SessionIds[i], v)

SpecPlan == Init /\ [][NextPlan]_vars

\* The handlers on the plan whose second step refers to the output of its
\* first, while the events table has fewer than MaxRefEvents rows.
MaxRefEvents == 8

NextRef == Handlers(MaxRefEvents, BaseSessions, {ReferencePlan(1)}, StepKeys2)

SpecRef == Init /\ [][NextRef]_vars

\* The handlers on a plan and on an import of the same version whose step
\* list repeats the id of its first step.
RepeatedPlan ==
    PlanBody(1, "repeated", "retry",
             <<ListStep("step_b", "low"), ListStep("step_a", "low"),
               ListStep("step_b", "low")>>)

ImportPlans ==
    {PlanBody(1, "two steps", None, <<ListStep("step_a", "low"), BlockedStep("step_b")>>),
     RepeatedPlan}

NextImport == Protocol(BaseSessions, ImportPlans, StepKeys3)

SpecImport == Init /\ [][NextImport]_vars

\* One execute_step request statement by statement beside the handlers.
\* The handlers write, so they wait while the transaction holds the write
\* lock (busy_timeout); the reads are answered at any time.
MaxTxEvents == 6

TxPlans == {PlanBody(1, "two steps", None, <<ListStep("step_a", "low"), BlockedStep("step_b")>>)}

\* A handler that writes may run.
MayWrite == ~LockHeld /\ Len(events) < MaxTxEvents

NextTx ==
    \/ \E req \in BaseSessions : MayWrite /\ create_session(req)
    \/ \E i \in 1 .. Len(SessionIds) :
        \/ \E req \in TxPlans : MayWrite /\ import_plan(SessionIds[i], req)
        \/ \E v \in Versions : MayWrite /\ approve_plan(SessionIds[i], v, ApprovalBody)
        \/ \E k \in StepKeys2 : MayWrite /\ approve_step(SessionIds[i], k, ApprovalBody)
        \/ MayWrite /\ stop_session(SessionIds[i])
        \/ \E k \in StepKeys2 :
              Len(events) < MaxTxEvents /\ begin_execute_step(SessionIds[i], k)
    \/ insert_run
    \/ insert_artifacts
    \/ artifact_write_fails
    \/ update_step
    \/ update_session
    \/ insert_events
    \/ commit_execute_step
    \/ \E i \in 1 .. Len(SessionIds) :
        \/ get_session(SessionIds[i])
        \/ search_events(SessionIds[i])
        \/ \E v \in Versions : get_plan(SessionIds[i], v)

SpecTx == Init /\ [][NextTx]_vars

\* The handlers, and the searches whose full-text statement fails.
Queries == {"step_executed", "Two Steps", "plan_"}

NextSearch ==
    \/ Handlers(MaxTxEvents, BaseSessions, TxPlans, StepKeys2)
    \/ \E i \in 1 .. Len(SessionIds), q \in Queries : search_events_like(SessionIds[i], q)

SpecSearch == Init /\ [][NextSearch]_vars

\* The Run objects: the one driven directly through transition_run, as the
\* unit tests of the state machine drive it, or the ones execute_step
\* builds and persists, as the daemon is driven.  The two share nothing;
\* a behaviour drives one or the other.
DaemonUntouched == sessions = <<>>
RunUntouched == run = NewRun /\ clock = 0 /\ Len(events) < MaxTxEvents

NextRunRows ==
    \/ \E next_status \in WorkflowStatus, failure_reason \in FailureReasons :
          DaemonUntouched /\ TransitionRun(next_status, failure_reason)
    \/ \E req \in BaseSessions : RunUntouched /\ create_session(req)
    \/ \E i \in 1 .. Len(SessionIds) :
        \/ \E req \in TxPlans : RunUntouched /\ import_plan(SessionIds[i], req)
        \/ \E v \in Versions : RunUntouched /\ approve_plan(SessionIds[i], v, ApprovalBody)
        \/ \E k \in StepKeys2 : RunUntouched /\ approve_step(SessionIds[i], k, ApprovalBody)
        \/ \E k \in StepKeys2, body \in ExecuteBodies :
              RunUntouched /\ execute_step(SessionIds[i], k, body)

SpecRunRows == Init /\ [][NextRunRows]_vars

(***************************************************************************)
(* The inputs of the direct tool calls.                                    *)
(***************************************************************************)
Contents == {Text(<<"v1">>, TRUE), Text(<<"v1">>, FALSE), Text(<<"v2">>, TRUE)}

\* What somebody else writes: one of the contents, nothing, or "v1\r\n".
OtherContents ==
    Contents \cup {EmptyText, [lines |-> <<"v1">>, eol |-> "CRLF", nl |-> TRUE]}

\* Patches that replace the first line, delete it, and add a line to a file
\* outside the workspace.
Patches ==
    {[path |-> InsidePath, old |-> <<"v1">>, new |-> <<"v2">>],
     [path |-> "sub/../memo.txt", old |-> <<"v1">>, new |-> <<>>],
     [path |-> "link/escape.txt", old |-> <<>>, new |-> <<"v2">>]}

Modes == {"preview", "apply", "replace"}

ExecuteCalls ==
    {[tool |-> "write_file_apply",
      inputs |-> [path |-> InsidePath, content |-> Text(<<"v2">>, TRUE)]],
     [tool |-> "apply_patch",
      inputs |-> [patch |-> [path |-> InsidePath, old |-> <<"v1">>, new |-> <<"v2">>],
                  mode |-> "apply"]]}

\* The commands of the shell tool: the words of the allowlist and words
\* beside them, alone, in pairs and after "python -m pytest", with one space
\* between them, and commands with more spaces, with quotes and with none.
Words == {"ls", "cat", "git", "status", "diff", "log", "python", "-m", "pytest", "-q",
          "tests", "echo"}

Commands ==
    Words
    \cup {a \o " " \o b : a, b \in Words}
    \cup {"python -m pytest " \o a : a \in Words}
    \cup {"python -m pytest -q " \o a : a \in Words}
    \cup {"", " ", "  ", "''", "'ls", "git \"status", "git  status", " git diff ",
          "'git' status", "\"git status\"", "'git status'", "gitstatus", "lsx",
          "git 'status'", "g'i't diff", "rg", "find", "ls -la", "GIT status"}

NextShell ==
    \/ \E command \in Commands : RunShellReadonly(command)
    \/ \E command \in Commands : Execute("run_shell_readonly", [command |-> command])

SpecShell == Init /\ [][NextShell]_vars

NextTools ==
    \/ \E path \in DOMAIN PathParts, content \in Contents : WriteFilePreview(path, content)
    \/ \E path \in DOMAIN PathParts, content \in Contents, preview \in PreviewChoices :
            WriteFileApply(path, content, preview)
    \/ \E patch \in Patches, mode \in Modes, preview \in PreviewChoices :
            ApplyPatch(patch, mode, preview)
    \/ \E c \in ExecuteCalls : Execute(c.tool, c.inputs)
    \/ \E content \in OtherContents : OtherWrite(content)

SpecTools == Init /\ [][NextTools]_vars

(***************************************************************************)
(* The properties.  Each is stated over the rows of the database, the      *)
(* workspace and the last request and response, not over the operators of  *)
(* the handlers.                                                           *)
(***************************************************************************)
\* The steps of a session that carry a step key, over all its plan versions.
StepsNamed(session_id, step_key) ==
    {st \in steps : /\ st.step_key = step_key
                    /\ \E p \in plans : p.id = st.plan_id /\ p.session_id = session_id}

\* An approval of type plan for the step's own plan and one of type step for
\* that very step, both of the session.
BothApprovals(session_id, st) ==
    /\ \E a \in approvals : /\ a.approval_type = "plan"
                            /\ a.session_id = session_id
                            /\ a.plan_id = st.plan_id
    /\ \E a \in approvals : /\ a.approval_type = "step"
                            /\ a.session_id = session_id
                            /\ a.step_id = st.id

\* The run rows a step of the behaviour inserts.
NewRuns == {r \in runs' : \A q \in runs : q.id # r.id}

\* The step of the behaviour answers an ExecuteStep of the session on the key.
Executes(session_id, step_key) ==
    /\ last'.op = "execute_step"
    /\ last'.session_id = session_id
    /\ last'.request.step_id = step_key

\* C1: ExecuteStep creates a run (and touches the workspace) only for a step
\* that has, at that moment, a plan approval of its own plan and a step
\* approval of its own; an ExecuteStep on a step without both is answered 409
\* and changes no row, no event and no file.  So every run row is created
\* for a step with both approvals.
C1_ApprovalGate ==
    [][/\ \A r \in NewRuns :
            \E st \in steps : /\ st.id = r.step_id
                              /\ st.plan_id = r.plan_id
                              /\ BothApprovals(r.session_id, st)
       /\ \A s \in DOMAIN workspace : workspace'[s] # workspace[s] => NewRuns # {}
       /\ \A s \in DOMAIN sessions, k \in StepKeys3 :
            (/\ Executes(s, k)
             /\ StepsNamed(s, k) # {}
             /\ \A st \in StepsNamed(s, k) : ~BothApprovals(s, st))
            => /\ last'.code = 409
               /\ UNCHANGED dbvars]_vars

\* A run exists, and the last ExecuteStep, on a step whose plan is approved
\* but which has no step approval, was refused.
C1_Witness ==
    /\ runs # {}
    /\ last.op = "execute_step"
    /\ last.code = 409
    /\ \E st \in StepsNamed(last.session_id, last.request.step_id) :
          /\ \E a \in approvals : a.approval_type = "plan" /\ a.plan_id = st.plan_id
          /\ ~\E a \in approvals : a.approval_type = "step" /\ a.step_id = st.id

\* The plan version of the run an event of type step_failed records.
FailedPlanVersion(e) ==
    (CHOOSE p \in plans : p.id = (CHOOSE r \in runs : r.id = e.run_id).plan_id).version

\* The plan version an event of type plan_imported records.
ImportedVersion(e) ==
    CHOOSE v \in Versions : e.summary = "plan v" \o ToString(v) \o " imported"

\* A step execution of the session has failed and no plan of a newer
\* version has been imported since.
ReplanPending(session_id) ==
    \E i \in 1 .. Len(events) :
        /\ events[i].event_type = "step_failed"
        /\ events[i].session_id = session_id
        /\ ~\E j \in (i + 1) .. Len(events) :
              /\ events[j].event_type = "plan_imported"
              /\ events[j].session_id = session_id
              /\ ImportedVersion(events[j]) > FailedPlanVersion(events[i])

\* C2: after a failed ExecuteStep of a session, every ExecuteStep of the
\* session is refused with 409 and creates no run, until a plan of a newer
\* version is imported.
C2_RefusedUntilReplan ==
    [][\A s \in DOMAIN sessions :
          (ReplanPending(s) /\ last'.op = "execute_step" /\ last'.session_id = s)
          => /\ last'.code = 409
             /\ runs' = runs]_vars

\* A step execution of the session has failed and no plan has been imported
\* since.
FailedSinceImport(session_id) ==
    \E i \in 1 .. Len(events) :
        /\ events[i].event_type = "step_failed"
        /\ events[i].session_id = session_id
        /\ ~\E j \in (i + 1) .. Len(events) :
              /\ events[j].event_type = "plan_imported"
              /\ events[j].session_id = session_id

\* C3: GetSession reports needs_replan: false for a new session, true once a
\* step execution of the session has failed, and false again only after an
\* ImportPlan.
C3_NeedsReplanReported ==
    (last.op = "get_session" /\ last.code = 200)
    => /\ "needs_replan" \in DOMAIN last.body
       /\ last.body.needs_replan = FailedSinceImport(last.session_id)

\* The inputs the step was imported with.
StepInputs(st) == st.payload_json.json.inputs

\* The step applies a write without a preview among its inputs.
AppliesWithoutPreview(st) ==
    /\ "preview" \notin DOMAIN StepInputs(st)
    /\ \/ st.tool_name = "write_file_apply"
       \/ st.tool_name = "apply_patch" /\ StepInputs(st).mode = "apply"

\* The step applies a write.
AppliesWrite(st) ==
    \/ st.tool_name = "write_file_apply"
    \/ st.tool_name = "apply_patch" /\ StepInputs(st).mode = "apply"

\* C4: in a session created with safety_profile strict, an approved
\* ExecuteStep of write_file_apply, or of apply_patch in mode apply, without
\* a preview changes no file of the workspace and is answered 200 with
\* status failed, and a failed run and a step_failed event are recorded.
C4_StrictPreviewGate ==
    [][\A s \in DOMAIN sessions, k \in StepKeys3 :
          (/\ Executes(s, k)
           /\ submitted.session[s].safety_profile = "strict"
           /\ StepsNamed(s, k) # {}
           /\ \A st \in StepsNamed(s, k) : BothApprovals(s, st) /\ AppliesWithoutPreview(st))
          => /\ workspace'[s] = workspace[s]
             /\ last'.code = 200
             /\ last'.body.status = "failed"
             /\ \E r \in NewRuns : r.status = "failed"
             /\ Len(events') > Len(events)
             /\ events'[Len(events')].event_type = "step_failed"]_vars

\* C5: in a session created with mode dry_run, an ExecuteStep of
\* write_file_apply, or of apply_patch in mode apply, is refused with 409
\* and leaves no run, no event and no file written.
C5_DryRunRefusesWrites ==
    [][\A s \in DOMAIN sessions, k \in StepKeys3 :
          (/\ Executes(s, k)
           /\ submitted.session[s].mode = "dry_run"
           /\ StepsNamed(s, k) # {}
           /\ \A st \in StepsNamed(s, k) : AppliesWrite(st))
          => /\ last'.code = 409
             /\ runs' = runs
             /\ events' = events
             /\ workspace' = workspace]_vars

\* C6: an ExecuteStep without confirm_high_risk = true on a step imported
\* with risk high is refused with 409 and creates no run, approved or not.
C6_HighRiskNeedsConfirm ==
    [][\A s \in DOMAIN sessions, k \in StepKeys3 :
          (/\ Executes(s, k)
           /\ ~last'.request.body.confirm_high_risk
           /\ StepsNamed(s, k) # {}
           /\ \A st \in StepsNamed(s, k) : submitted.risk[st.id] = "high")
          => /\ last'.code = 409
             /\ runs' = runs]_vars

\* The legal transitions of a run, as pairs <<status, next status>>.
LegalTransitions ==
    {<<"pending", "awaiting_plan_approval">>, <<"pending", "cancelled">>,
     <<"awaiting_plan_approval", "awaiting_step_approval">>,
     <<"awaiting_plan_approval", "cancelled">>,
     <<"awaiting_step_approval", "running">>, <<"awaiting_step_approval", "skipped">>,
     <<"awaiting_step_approval", "cancelled">>,
     <<"running", "succeeded">>, <<"running", "failed">>,
     <<"running", "cancelled">>, <<"running", "skipped">>}

\* C7: transition_run on a run in status s with next status t succeeds and
\* sets the status to t iff the pair <<s, t>> is a legal transition; for every
\* other pair it raises InvalidStateTransition and leaves the run as it was.
C7_TransitionTable ==
    [][IF <<run.status, outcome'.next_status>> \in LegalTransitions
       THEN ~outcome'.raised /\ run'.status = outcome'.next_status
       ELSE outcome'.raised /\ run' = run]_vars

\* A run that has succeeded, and a transition of it that was refused.
C7_Witness ==
    /\ run.status = "succeeded"
    /\ outcome.raised
    /\ outcome.next_status = "cancelled"

\* C8: of a run that starts pending, after any transition_run calls: a
\* terminal status comes with finished_at; needs_replan is true iff the
\* status is failed; entering running stamps started_at if it is not
\* stamped, and a stamped started_at never changes, so that a run that has
\* been running has it.
C8_RunStamps ==
    /\ [](/\ run.status \in TERMINAL_STATUSES => run.finished_at # NULL
          /\ run.needs_replan <=> run.status = "failed"
          /\ run.status = "running" => run.started_at # NULL)
    /\ [][/\ run.started_at # NULL => run'.started_at = run.started_at
          /\ run'.started_at # run.started_at
                => run.status # "running" /\ run'.status = "running"]_vars

\* A run that has been running and has failed.
C8_Witness ==
    /\ run.status = "failed"
    /\ run.needs_replan
    /\ run.started_at # NULL
    /\ run.finished_at > run.started_at

\* C9: an UPDATE or a DELETE of an events row fails, and every step leaves
\* the journal an extension of what it was: the rows it had are unchanged and
\* the ids count up in insertion order.
C9_AppendOnly ==
    [][/\ Len(events') >= Len(events)
       /\ \A i \in 1 .. Len(events) : events'[i] = events[i]
       /\ \A i \in 1 .. Len(events') : events'[i].id = i
       /\ last'.op \in {"sql_update_event", "sql_delete_event"}
            => last'.detail = "events is append-only" /\ events' = events]_vars

\* An UPDATE of the newest row of a journal of several rows has been refused.
C9_Witness ==
    /\ last.op = "sql_update_event"
    /\ last.detail = "events is append-only"
    /\ Len(events) >= 3
    /\ events[Len(events)].summary # "updated"

\* The error the tool of the step raises on the workspace, None if it
\* returns.
ToolError(st, file) == _invoke(st.tool_name, StepInputs(st), file).error

\* C10: an approved ExecuteStep whose tool fails is answered 200 with status
\* failed and the error of the tool; and an ExecuteStep answered with status
\* failed has, in the same step, inserted a run row with status failed and
\* that error as failure_reason, set the step and the session to failed and
\* appended one step_failed event with the error.
C10_FailureRecorded ==
    [][\A s \in DOMAIN sessions, k \in StepKeys3 :
          /\ (/\ Executes(s, k)
              /\ StepsNamed(s, k) # {}
              /\ \A st \in StepsNamed(s, k) :
                    BothApprovals(s, st) /\ ToolError(st, workspace[s]) # None)
             => /\ last'.code = 200
                /\ last'.body.status = "failed"
                /\ \E st \in StepsNamed(s, k) :
                      last'.body.error = ToolError(st, workspace[s])
          /\ (Executes(s, k) /\ last'.code = 200 /\ last'.body.status = "failed")
             => /\ last'.body.error # None
                /\ \E r \in NewRuns :
                      /\ NewRuns = {r}
                      /\ r.id = last'.body.run_id
                      /\ r.session_id = s
                      /\ r.status = "failed"
                      /\ r.failure_reason = last'.body.error
                      /\ \E st \in steps' : /\ st.id = r.step_id
                                            /\ st.step_key = k
                                            /\ st.status = "failed"
                      /\ Len(events') = Len(events) + 1
                      /\ events'[Len(events')].event_type = "step_failed"
                      /\ events'[Len(events')].session_id = s
                      /\ events'[Len(events')].run_id = r.id
                      /\ events'[Len(events')].payload_text.error = last'.body.error
                /\ sessions'[s].status = "failed"]_vars

\* A write with a stale preview has failed and has been recorded.
C10_Witness ==
    /\ last.op = "execute_step"
    /\ last.code = 200
    /\ last.body.status = "failed"
    /\ last.body.error = "provided preview does not match current file state"
    /\ \E r \in runs : r.id = last.body.run_id /\ r.failure_reason = last.body.error

(***************************************************************************)
(* The properties of the write tools, over the direct calls.               *)
(***************************************************************************)
\* The location the call of the step writes to, and the lines of the file
\* there before the call, as a reader sees them.
CallTarget == TargetOf(call'.path)
LinesBefore == IF fs[CallTarget].exists THEN fs[CallTarget].text.lines ELSE <<>>

\* The call of the step is an apply that carries the preview held, for the
\* inputs the preview was taken for.
AppliesHeld(op) ==
    /\ call'.op = op
    /\ op = "apply_patch" => call'.mode = "apply"
    /\ held # <<>>
    /\ held[1].op = (IF op = "apply_patch" THEN "apply_patch" ELSE "write_file_preview")
    /\ call'.preview = <<held[1].preview>>
    /\ call'.path = held[1].path
    /\ call'.content = held[1].content
    /\ call'.patch = held[1].patch

\* C13: write_file_apply with the preview write_file_preview returned for the
\* same path and content, the file not changed in between, succeeds and
\* leaves the file equal to the content, whose sha256 is the new_sha256 of
\* the preview; apply_patch in mode apply with the preview of mode preview
\* leaves the lines of the patch followed by the lines it did not delete.
C13_TwoPhaseRoundTrip ==
    [][/\ (AppliesHeld("write_file_apply") /\ fs[CallTarget] = held[1].file)
          => /\ call'.error = None
             /\ fs'[CallTarget] = [exists |-> TRUE, text |-> call'.content]
             /\ <<"sha256", fs'[CallTarget].text>> = held[1].preview.new_sha256
       /\ (AppliesHeld("apply_patch") /\ fs[CallTarget] = held[1].file)
          => /\ call'.error = None
             /\ fs'[CallTarget].exists
             /\ fs'[CallTarget].text.lines =
                    call'.patch.new \o SubSeq(LinesBefore, Len(call'.patch.old) + 1,
                                              Len(LinesBefore))
             /\ <<"sha256", fs'[CallTarget].text>> = held[1].preview.new_sha256]_vars

\* A patch has been applied with its preview and has changed memo.txt.
C13_Witness ==
    /\ call.op = "apply_patch"
    /\ call.mode = "apply"
    /\ held # <<>>
    /\ call.preview = <<held[1].preview>>
    /\ call.error = None
    /\ call.output.changed
    /\ fs[TargetOf(call.path)].text.lines = <<"v2">>

MismatchMessage == "provided preview does not match current file state"

RecomputedWrite ==
    [path |-> "memo.txt",
     diff |-> IF LinesBefore = call'.content.lines THEN <<>>
              ELSE <<"memo.txt", LinesBefore, call'.content.lines>>,
     new_sha256 |-> <<"sha256", call'.content>>]

C15_PreviewNonDestructive ==
    [][(\/ call'.op = "write_file_preview"
        \/ call'.op = "apply_patch" /\ call'.mode = "preview")
       => fs' = fs]_vars

\* A preview of a change to an existing memo.txt has been returned.
C15_Witness ==
    /\ call.op = "write_file_preview"
    /\ call.error = None
    /\ call.output.changed
    /\ fs[TargetOf(call.path)].exists

\* The path of the call resolves to /escape.txt, outside /ws.
ResolvesOutside == CallTarget = <<"escape.txt">>

\* C16: a call of write_file_preview, write_file_apply or apply_patch on a
\* path that resolves outside the workspace root raises
\* WorkspaceBoundaryError and writes nothing; no file outside the root is
\* ever written.
C16_BoundaryError ==
    [][/\ (call'.op \in {"write_file_preview", "write_file_apply", "apply_patch"}
           /\ ResolvesOutside)
          => /\ call'.error = "path '" \o call'.path \o "' is outside workspace '/ws'"
             /\ fs' = fs
       /\ fs'[<<"escape.txt">>] = fs[<<"escape.txt">>]]_vars

\* C16 as amended: such a call is rejected and writes nothing, with
\* WorkspaceBoundaryError unless apply_patch rejects its mode first; no file
\* outside the root is ever written.
C16_BoundaryRejected ==
    [][/\ (call'.op \in {"write_file_preview", "write_file_apply", "apply_patch"}
           /\ ResolvesOutside)
          => /\ call'.error # None
             /\ \/ call'.error = "path '" \o call'.path \o "' is outside workspace '/ws'"
                \/ call'.op = "apply_patch" /\ call'.mode \notin {"preview", "apply"}
             /\ fs' = fs
       /\ fs'[<<"escape.txt">>] = fs[<<"escape.txt">>]]_vars

\* A write through the symbolic link has been rejected.
C16_Witness ==
    /\ call.op = "write_file_apply"
    /\ call.path = "link/escape.txt"
    /\ call.error = "path 'link/escape.txt' is outside workspace '/ws'"
    /\ ~fs[<<"escape.txt">>].exists

\* C17: StepExecutor.execute of write_file_apply without a preview input,
\* and of apply_patch in mode apply without one, returns status failed with
\* no output and no artifacts and leaves the file as it is.
C17_ExecutorRequiresPreview ==
    [][(/\ call'.op = "execute"
        /\ call'.preview = <<>>
        /\ \/ call'.tool = "write_file_apply"
           \/ call'.tool = "apply_patch" /\ call'.mode = "apply")
       => /\ call'.status = "failed"
          /\ call'.error # None
          /\ call'.output = [path |-> None]
          /\ call'.artifacts = <<>>
          /\ fs' = fs]_vars

(***************************************************************************)
(* Properties of the session roll-up, the step input references and the    *)
(* plan round trip.                                                        *)
(***************************************************************************)
\* The steps, among step_rows, of the session's plan of the highest version.
CurrentPlanSteps(session_id, step_rows) ==
    {st \in step_rows :
        \E p \in plans : /\ p.id = st.plan_id
                         /\ p.session_id = session_id
                         /\ p.version = current_plan_version(session_id)}

\* The roll-up of the session after a step has ended with step_status.
RollUp(session_id, step_status, step_rows) ==
    IF step_status = "failed" THEN "failed"
    ELSE IF \A st \in CurrentPlanSteps(session_id, step_rows) : st.status = "succeeded"
    THEN "succeeded"
    ELSE "awaiting_step_approval"

\* C11: after every ExecuteStep that returns a run, the status of the
\* session is the roll-up: failed if the executed step failed, otherwise
\* succeeded if every step of the plan of the session's highest imported
\* version has status succeeded, otherwise awaiting_step_approval.
C11_SessionRollUp ==
    [][\A i \in 1 .. Len(SessionIds), k \in StepKeys3 :
          (Executes(SessionIds[i], k) /\ last'.code = 200 /\ NewRuns # {})
          => sessions'[SessionIds[i]].status =
                RollUp(SessionIds[i], last'.body.status, steps')]_vars

\* The events of the behaviour's step, in their order.
NewEvents == SubSeq(events', Len(events) + 1, Len(events'))

\* The step of the behaviour publishes a whole execution: one run row, the
\* rows of its artifacts, the status of its step and of its session, the
\* event of the step and one event for each artifact, all of them at once.
PublishesExecution ==
    \E r \in NewRuns :
        /\ NewRuns = {r}
        /\ runs' = runs \cup {r}
        /\ last'.op = "execute_step" /\ last'.code = 200
        /\ r.id = last'.body.run_id
        /\ r.status = last'.body.status
        /\ {a.path : a \in artifacts' \ artifacts}
              = {last'.body.artifacts[i] : i \in 1 .. Len(last'.body.artifacts)}
        /\ \A a \in artifacts' \ artifacts : a.run_id = r.id
        /\ artifacts \subseteq artifacts'
        /\ \E st \in steps : /\ st.id = r.step_id
                              /\ steps' = (steps \ {st})
                                           \cup {[st EXCEPT !.status = r.status]}
        /\ sessions' = [sessions EXCEPT ![r.session_id].status =
                            rollup_status(r.status, r.plan_id, steps')]
        /\ Len(NewEvents) = 1 + Len(last'.body.artifacts)
        /\ NewEvents[1].event_type =
              IF r.status = "succeeded" THEN "step_executed" ELSE "step_failed"
        /\ \A i \in 1 .. Len(NewEvents) : NewEvents[i].run_id = r.id
        /\ \A i \in 2 .. Len(NewEvents) :
              /\ NewEvents[i].event_type = "artifact_saved"
              /\ NewEvents[i].payload_text = last'.body.artifacts[i - 1]
        /\ SubSeq(events', 1, Len(events)) = events

\* C12: the rows an ExecuteStep writes (run, artifacts, step status, session
\* status, events) reach the tables the other requests read in one step,
\* its commit, all of them together; every other step of the request, a
\* failure part-way included, leaves those tables as they are, so that no
\* request beside it reads a part of them.
C12_CommitAtOnce ==
    [][tx' # tx
       => \/ UNCHANGED <<sessions, plans, steps, approvals, runs, artifacts, events>>
          \/ tx.pc = "commit" /\ tx'.pc = "idle" /\ PublishesExecution]_vars

\* All the statements of a successful execution have run and none of their
\* rows is in the tables the other requests read: the search another
\* request has just been answered lists no event of the run.
C12_Witness ==
    /\ tx.pc = "commit"
    /\ tx.result[1].status = "succeeded"
    /\ tx.db[1].runs # runs
    /\ tx.db[1].artifacts # artifacts
    /\ Len(tx.db[1].events) = Len(events) + 2
    /\ last.op = "search_events" /\ last.code = 200
    /\ Len(last.body.items) = Len(events)
    /\ \A r \in runs : r.id # tx.run_id

\* The step keys whose output the inputs of the step refer to.
ReferencedKeys(st) ==
    {key \in StepKeys3 : /\ Has(StepInputs(st), "preview")
                          /\ StepInputs(st).preview = Str(Placeholder(key))}

\* The succeeded runs of the session on its steps of that key.
SucceededRuns(session_id, key) ==
    {r \in runs : /\ r.session_id = session_id
                   /\ r.status = "succeeded"
                   /\ \E st \in StepsNamed(session_id, key) : st.id = r.step_id}

MostRecent(rs) == CHOOSE r \in rs : \A o \in rs : o.id <= r.id

\* The output the event step_executed of the run records.
RunOutput(r) ==
    events[CHOOSE i \in 1 .. Len(events) :
              events[i].run_id = r.id /\ events[i].event_type = "step_executed"
          ].payload_text.output

\* A placeholder of the step names a key without a succeeded run.
Unresolved(session_id, st) ==
    \E key \in ReferencedKeys(st) : SucceededRuns(session_id, key) = {}

\* The inputs of the step, its placeholder replaced by the output of the
\* most recent succeeded run of the step it names.
ResolvedInputs(session_id, st) ==
    IF ReferencedKeys(st) = {} THEN StepInputs(st)
    ELSE [StepInputs(st) EXCEPT !.preview =
             RunOutput(MostRecent(SucceededRuns(session_id,
                                                CHOOSE key \in ReferencedKeys(st) : TRUE)))]

\* The ExecuteStep of the behaviour is on an approved step of the session.
ExecutesApproved(session_id, step_key) ==
    /\ Executes(session_id, step_key)
    /\ StepsNamed(session_id, step_key) # {}
    /\ \A st \in StepsNamed(session_id, step_key) : BothApprovals(session_id, st)

\* C18: ExecuteStep of an approved step whose inputs hold a placeholder
\* ${steps.<key>.output} of a step without a succeeded run in the session is
\* refused with 409 and the detail 'step input reference could not be
\* resolved: <placeholder>'; no tool runs (the workspace is as before) and
\* no run row is created.
C18_UnresolvedReferenceRefused ==
    [][\A s \in DOMAIN sessions, k \in StepKeys3 :
          (/\ ExecutesApproved(s, k)
           /\ \A st \in StepsNamed(s, k) : Unresolved(s, st))
          => /\ last'.code = 409
             /\ \E st \in StepsNamed(s, k) : \E key \in ReferencedKeys(st) :
                   last'.detail = "step input reference could not be resolved: "
                                  \o Placeholder(key)
             /\ runs' = runs
             /\ workspace' = workspace]_vars

\* C19: ExecuteStep of an approved step whose inputs hold a placeholder
\* ${steps.<key>.output} of a step with a succeeded run invokes the tool on
\* the inputs with the placeholder replaced by the output of the most recent
\* succeeded run of that step, the other inputs as they are.
C19_ReferencesResolved ==
    [][\A s \in DOMAIN sessions, k \in StepKeys3 :
          (/\ ExecutesApproved(s, k)
           /\ \A st \in StepsNamed(s, k) :
                 ReferencedKeys(st) # {} /\ ~Unresolved(s, st))
          => \E st \in StepsNamed(s, k) :
                LET result == execute(st.tool_name, ResolvedInputs(s, st), workspace[s])
                IN  /\ last'.code = 200
                    /\ last'.body.status = result.status
                    /\ last'.body.output = result.output
                    /\ workspace'[s] = result.file]_vars

\* The step rows of the plan of that version of the session.
PlanStepRows(session_id, version) ==
    {st \in steps : \E p \in plans : /\ p.id = st.plan_id
                                     /\ p.session_id = session_id
                                     /\ p.version = version}

\* C20: after an accepted ImportPlan of version v, GetPlan of v returns the
\* version and the title of the request and its steps in their order, each
\* with the id, title, tool, inputs and timeout_sec of the request (inputs
\* {} and timeout_sec 30 where the request left them out), and with status
\* pending as long as the step has been neither approved nor executed since.
C20_PlanRoundTrip ==
    (last.op = "get_plan" /\ last.code = 200)
    => LET req == submitted.plan[<<last.session_id, last.request.version>>]
           got == last.body
       IN  /\ got.version = req.version
           /\ got.title = req.title
           /\ Len(got.steps) = Len(req.steps)
           /\ \A i \in 1 .. Len(req.steps) :
                /\ got.steps[i].id = req.steps[i].id
                /\ got.steps[i].title = req.steps[i].title
                /\ got.steps[i].tool = req.steps[i].tool
                /\ got.steps[i].inputs =
                      IF "inputs" \in DOMAIN req.steps[i] THEN req.steps[i].inputs
                      ELSE <<>>
                /\ got.steps[i].timeout_sec =
                      IF "timeout_sec" \in DOMAIN req.steps[i]
                      THEN req.steps[i].timeout_sec ELSE 30
                /\ (\A st \in PlanStepRows(last.session_id, req.version) :
                       st.step_key = req.steps[i].id
                       => /\ \A r \in runs : r.step_id # st.id
                          /\ \A a \in approvals : a.step_id # st.id)
                   => got.steps[i].status = "pending"

\* GetPlan has returned version 2 after it was imported: its first step with
\* the default timeout, its second step with the inputs and the 120 seconds
\* of the request.
C20_Witness ==
    /\ last.op = "get_plan" /\ last.code = 200
    /\ last.body.version = 2
    /\ "timeout_sec" \notin DOMAIN submitted.plan[<<last.session_id, 2>>].steps[1]
    /\ last.body.steps[1].timeout_sec = 30
    /\ last.body.steps[2].timeout_sec = 120
    /\ last.body.steps[2].inputs.preview = Str(Placeholder("step_a"))
    /\ last.body.steps[2].status = "pending"

(***************************************************************************)
(* Properties of the run state machine, continued.                         *)
(***************************************************************************)
\* C28: the terminal statuses are absorbing: every transition_run on a run
\* whose status is succeeded, failed, cancelled or skipped raises
\* InvalidStateTransition and leaves the run, its status included, as it
\* was; so a terminal status never changes again.
C28_TerminalAbsorbing ==
    /\ [][run.status \in TERMINAL_STATUSES => outcome'.raised /\ run' = run]_vars
    /\ \A s \in TERMINAL_STATUSES : [](run.status = s => [](run.status = s))

\* A failed run that was asked to run again and refused.
C28_Witness ==
    /\ run.status = "failed"
    /\ outcome.raised
    /\ outcome.next_status = "running"

\* C29: the failure_reason of a run is populated iff its status is failed.
\* Of a run that starts pending: entering failed records the given reason,
\* or 'step_failed' when none or an empty one is given; in every other
\* status the reason is null.  Every run row execute_step persists has
\* status succeeded or failed, its failure_reason non-null exactly when it
\* is failed.
C29_FailureReason ==
    /\ [](run.failure_reason # None <=> run.status = "failed")
    /\ [][(run' # run /\ run'.status = "failed")
          => run'.failure_reason =
                IF outcome'.failure_reason \in {None, ""} THEN "step_failed"
                ELSE outcome'.failure_reason]_vars
    /\ [](\A r \in runs : /\ r.status \in {"succeeded", "failed"}
                           /\ r.failure_reason # None <=> r.status = "failed")

\* execute_step has persisted a failed run with the error of its tool as
\* the reason.
C29_Witness ==
    \E r \in runs : /\ r.status = "failed"
                     /\ r.failure_reason = "command is not allowlisted: echo blocked"
                     /\ last.op = "execute_step" /\ last.body.run_id = r.id

(***************************************************************************)
(* Properties of the handlers, continued.                                  *)
(***************************************************************************)
\* The step of the behaviour answers a StopSession of the session.
Stops(session_id) == last'.op = "stop_session" /\ last'.session_id = session_id

\* C23: StopSession on an existing session, whatever its status, one that
\* is already cancelled included, answers 200 with the session id and the
\* status cancelled, sets the status of the session to cancelled and
\* appends one event session_stopped; it changes nothing else.
C23_StopIdempotent ==
    [][\A s \in DOMAIN sessions :
          Stops(s)
          => /\ last'.code = 200
             /\ last'.body = [session_id |-> s, status |-> "cancelled"]
             /\ sessions' = [sessions EXCEPT ![s].status = "cancelled"]
             /\ Len(events') = Len(events) + 1
             /\ SubSeq(events', 1, Len(events)) = events
             /\ events'[Len(events')].event_type = "session_stopped"
             /\ events'[Len(events')].session_id = s
             /\ UNCHANGED <<plans, steps, approvals, runs, artifacts>>]_vars

\* A session that has been stopped twice.
C23_Witness ==
    /\ last.op = "stop_session" /\ last.code = 200
    /\ sessions[last.session_id].status = "cancelled"
    /\ Len(events) >= 2
    /\ events[Len(events)].event_type = "session_stopped"
    /\ events[Len(events) - 1].event_type = "session_stopped"

\* The handlers that write, and the type of the event of each.
OwnEventType ==
    [create_session |-> "session_created", import_plan |-> "plan_imported",
     approve_plan |-> "plan_approved", approve_step |-> "step_approved",
     stop_session |-> "session_stopped"]

\* C30: each accepted operation appends to the journal, after the events
\* that are there, one event of its own type for its session (the events of
\* the approvals with the source of the request and its approved_by as
\* user_id); an accepted ExecuteStep appends one step_executed or
\* step_failed, as its run has ended, and after it one artifact_saved for
\* each artifact it saved, in their order.  The ids of the journal count up
\* in the order the operations commit.
C30_OneEventPerOperation ==
    [][/\ SubSeq(events', 1, Len(events)) = events
       /\ \A i \in 1 .. Len(events') : events'[i].id = i
       /\ (last'.code = 200 /\ last'.op \in DOMAIN OwnEventType)
          => /\ Len(NewEvents) = 1
             /\ NewEvents[1].event_type = OwnEventType[last'.op]
             /\ NewEvents[1].session_id = last'.session_id
             /\ last'.op \in {"approve_plan", "approve_step"}
                   => /\ NewEvents[1].source = last'.request.body.source
                      /\ NewEvents[1].user_id = last'.request.body.approved_by
       /\ (last'.code = 200 /\ last'.op = "execute_step")
          => /\ Len(NewEvents) = 1 + Len(last'.body.artifacts)
             /\ NewEvents[1].event_type =
                   IF last'.body.status = "succeeded" THEN "step_executed"
                   ELSE "step_failed"
             /\ \A i \in 1 .. Len(NewEvents) :
                   /\ NewEvents[i].session_id = last'.session_id
                   /\ NewEvents[i].run_id = last'.body.run_id
             /\ \A i \in 1 .. Len(last'.body.artifacts) :
                   /\ NewEvents[i + 1].event_type = "artifact_saved"
                   /\ NewEvents[i + 1].payload_text = last'.body.artifacts[i]]_vars

\* A step has been approved and executed with one artifact: the journal
\* ends with step_approved of the caller, step_executed and artifact_saved.
C30_Witness ==
    /\ last.op = "execute_step" /\ last.code = 200
    /\ Len(last.body.artifacts) = 1
    /\ Len(events) >= 3
    /\ events[Len(events)].event_type = "artifact_saved"
    /\ events[Len(events) - 1].event_type = "step_executed"
    /\ events[Len(events) - 2].event_type = "step_approved"
    /\ events[Len(events) - 2].source = "integration"
    /\ events[Len(events) - 2].user_id = "user_1"

\* The rows of the database a request may write.
PersistentRows == <<sessions, plans, steps, approvals, runs, artifacts, events>>

\* C27: a request that is not accepted leaves every row of the database as
\* it was.  A request that names a session, a plan version or a step key
\* that does not exist is answered 404; the other refusals of the protocol
\* are answered 409; an ImportPlan whose step list repeats a step id raises
\* at the repeated INSERT and is answered 500, and the plan row, the steps
\* imported before, the approvals, the runs, the status of the session and
\* the events are those of before the request.
C27_RejectedLeavesState ==
    [][/\ last'.code # 200 => UNCHANGED PersistentRows
       /\ last'.code \in {200, 404, 409, 500}
       /\ (last'.op # "create_session" /\ last'.session_id \notin DOMAIN sessions)
          => last'.code = 404
       /\ (last'.op = "approve_plan"
            /\ _fetch_plan(last'.session_id, last'.request.version) = {})
          => last'.code = 404
       /\ (last'.op \in {"approve_step", "execute_step"}
            /\ _fetch_step(last'.session_id, last'.request.step_id) = {})
          => last'.code = 404
       /\ (last'.op = "import_plan" /\ last'.session_id \in DOMAIN sessions
            /\ Cardinality(StepKeys(last'.request)) < Len(last'.request.steps))
          => last'.code = 500
       /\ last'.code = 409
          => /\ last'.op \in {"approve_step", "execute_step"}
             /\ last'.session_id \in DOMAIN sessions
             /\ _fetch_step(last'.session_id, last'.request.step_id) # {}]_vars

\* An import that repeats a step id has been answered 500 after the plan
\* was imported, approved and its step executed: the two steps imported
\* before are there, and the run still refers to its step.
C27_Witness ==
    /\ last.op = "import_plan" /\ last.code = 500
    /\ \E p \in plans : /\ p.title = "two steps"
                        /\ Cardinality({st \in steps : st.plan_id = p.id}) = 2
    /\ \E r \in runs : \E st \in steps : r.step_id = st.id /\ st.step_key = "step_a"
    /\ sessions["session_1"].goal = "demo"

\* C21: StepExecutor.execute is back at its caller within the budget of
\* max(1, timeout) seconds: the caller is never waiting, for the future or
\* for the worker thread, after the budget is spent, and a call whose
\* handler had not returned by then has ended with status failed and the
\* error "tool timeout after Ns".
C21_ReturnsWithinBudget ==
    /\ worker.pc \in {"waiting", "shutdown", "returned"}
          => worker.elapsed <= worker.bounded_timeout
    /\ (worker.pc = "returned" /\ worker.timed_out)
          => /\ worker.status = "failed"
             /\ worker.error = "tool timeout after "
                                \o ToString(worker.bounded_timeout) \o "s"

\* The prefixes the claim names, as lists of tokens.
ConfiguredPrefixes ==
    {<<"ls">>, <<"cat">>, <<"rg">>, <<"find">>, <<"git", "status">>, <<"git", "diff">>,
     <<"python", "-m", "pytest", "-q">>}

\* The tokens of the command are there and begin with the tokens of a
\* configured prefix.
BeginsWithPrefix(command) ==
    /\ ~shlex_split(command).raises
    /\ \E prefix \in ConfiguredPrefixes :
          LET tokens == shlex_split(command).tokens
          IN  /\ Len(tokens) >= Len(prefix)
              /\ \A i \in 1 .. Len(prefix) : tokens[i] = prefix[i]

\* C22: run_shell_readonly starts a process, for the tokens of the command,
\* exactly when the tokens begin with a configured prefix, token by token;
\* for every other command the call raises before a process is started,
\* and the executor reports the step as failed with no output.
C22_AllowlistedOnly ==
    call.tool = "run_shell_readonly"
    => /\ call.process # <<>> <=> BeginsWithPrefix(call.command)
       /\ BeginsWithPrefix(call.command)
          => /\ call.process = <<shlex_split(call.command).tokens>>
             /\ call.status = "succeeded"
             /\ call.output = [command |-> call.command, exit_code |-> 0]
       /\ ~BeginsWithPrefix(call.command)
          => /\ call.status = "failed"
             /\ call.error # None
             /\ call.output = NoOutput

\* The executor has refused "git log" and "python -m pytest tests", or run
\* "git  status" read as the tokens git and status.
C22_Witness ==
    /\ call.op = "execute"
    /\ call.tool = "run_shell_readonly"
    /\ \/ call.command = "git log" /\ call.status = "failed"
       \/ call.command = "python -m pytest tests" /\ call.status = "failed"
       \/ call.command = "git  status" /\ call.process = <<(<<"git", "status">>)>>

\* The text holds the query, character for character.
Contains(text, q) ==
    \E i \in 1 .. Len(text) - Len(q) + 1 : SubSeq(text, i, i + Len(q) - 1) = q

\* The ids of the events of the session that hold the query in their
\* event_type, summary or payload_text.
Holding(session_id, q) ==
    {events[i].id : i \in {j \in 1 .. Len(events) :
        /\ events[j].session_id = session_id
        /\ \/ Contains(events[j].event_type, q)
           \/ Contains(events[j].summary, q)
           \/ Contains(payload_text_of(events[j]), q)}}

ClientMethod ==
    [session_create |-> "create_session", plan_show |-> "get_plan",
     step_approve |-> "approve_step", step_execute |-> "execute_step",
     session_stop |-> "stop_session", logs_search |-> "search_events",
     artifacts_list |-> "list_artifacts", tools_permissions |-> "get_tool_permissions"]

\* C25: an operation of the service by a user who is not on the allowlist
\* raises DiscordAuthorizationError and the client receives no call; by a
\* user on the allowlist it makes one call of the client, the method of the
\* operation, and step_approve passes the user id as the string approved_by
\* with the source "discord".
C25_AllowlistFirst ==
    [][/\ discord'.op \in DOMAIN ClientMethod
       /\ discord'.user_id \notin {42, 43}
          => /\ discord'.raised # None
             /\ discord'.calls = discord.calls
       /\ discord'.user_id \in {42, 43}
          => /\ discord'.raised = None
             /\ Len(discord'.calls) = Len(discord.calls) + 1
             /\ SubSeq(discord'.calls, 1, Len(discord.calls)) = discord.calls
             /\ discord'.calls[Len(discord'.calls)].method = ClientMethod[discord'.op]
             /\ discord'.op = "step_approve"
                   => /\ discord'.calls[Len(discord'.calls)].kwargs.approved_by
                            = ToString(discord'.user_id)
                      /\ discord'.calls[Len(discord'.calls)].kwargs.source = "discord"]_vars

\* User 7 has been refused step_execute after user 42 approved the step:
\* the approval is the one call the client has received.
C25_Witness ==
    /\ discord.op = "step_execute" /\ discord.user_id = 7 /\ discord.raised # None
    /\ Len(discord.calls) = 1
    /\ discord.calls[1].method = "approve_step"
    /\ discord.calls[1].kwargs.approved_by = "42"

\* The checks that follow the preconditions, in their order.
SubsequentChecks ==
    <<"daemon_connectivity", "tools_permissions", "session_create", "plan_import",
      "plan_approve", "step_approve", "step_execute", "logs_search", "artifacts_list",
      "session_stop">>

\* The status of the check of that name, "none" when there is no such check.
StatusOf(name) ==
    IF \E i \in 1 .. Len(doctor.checks) : doctor.checks[i].name = name
    THEN doctor.checks[CHOOSE i \in 1 .. Len(doctor.checks) :
                            doctor.checks[i].name = name].status
    ELSE "none"

\* C26: after a run of doctor with an empty token or an invalid base URL
\* the check of that precondition is fail, every check after the
\* preconditions is skip with a reason, and the client has received no
\* call; after every run ok is that no check is fail.
C26_PreconditionShortCircuits ==
    doctor.checks # <<>>
    => /\ ~doctor.base_url_ok => StatusOf("base_url") = "fail"
       /\ doctor.token = "" => StatusOf("token") = "fail"
       /\ (~doctor.base_url_ok \/ doctor.token = "")
          => /\ \A i \in 1 .. Len(SubsequentChecks) :
                   StatusOf(SubsequentChecks[i]) = "skip"
             /\ \A i \in 1 .. Len(doctor.checks) :
                   doctor.checks[i].status = "skip" => doctor.checks[i].detail # ""
             /\ doctor.calls = <<>>
       /\ doctor.ok <=> \A i \in 1 .. Len(doctor.checks) : doctor.checks[i].status # "fail"

(***************************************************************************)
(* Two sessions beside each other: each imports, re-imports, approves and  *)
(* executes its own plans.                                                 *)
(***************************************************************************)
MaxSessionEvents == 6

TwoSessionIds == <<"session_1", "session_2">>

\* Version 1 again with the two steps in the other order and a goal.
SwappedPlan ==
    PlanBody(1, "swapped", "retry", <<BlockedStep("step_b"), ListStep("step_a", "low")>>)

\* Version 2 writes memo.txt with a workspace_root among the inputs of its
\* step: the workspace of session_1.
OtherRootPlan ==
    PlanBody(2, "other root", "recover",
             <<PlanStep("step_a", "write_file_apply",
                        [path |-> InsidePath, content |-> Text(<<"v1">>, TRUE),
                         workspace_root |-> workspace_root_of("session_1")], "low")>>)

SessionPlans ==
    {PlanBody(1, "two steps", None, <<ListStep("step_a", "low"), BlockedStep("step_b")>>),
     SwappedPlan, OtherRootPlan}

MayAppend == Len(events) < MaxSessionEvents

NextSessions ==
    \/ \E req \in BaseSessions : MayAppend /\ create_session_of(TwoSessionIds, req)
    \/ \E i \in 1 .. Len(TwoSessionIds) :
        \/ \E req \in SessionPlans : MayAppend /\ import_plan(TwoSessionIds[i], req)
        \/ \E v \in Versions : MayAppend /\ approve_plan(TwoSessionIds[i], v, ApprovalBody)
        \/ MayAppend /\ approve_step(TwoSessionIds[i], "step_a", ApprovalBody)
        \/ MayAppend /\ execute_step(TwoSessionIds[i], "step_a", [confirm_high_risk |-> FALSE])

SpecSessions == Init /\ [][NextSessions]_vars

\* The request last answered was an accepted ImportPlan, and this step is it.
Imports == Len(events') > Len(events) /\ last'.op = "import_plan" /\ last'.code = 200

\* The rows of the plans of a session other than the version, and of the
\* plans of the other sessions.
PlansBeside(plan_rows, session_id, version) ==
    {p \in plan_rows : ~(p.session_id = session_id /\ p.version = version)}

StepsBeside(plan_rows, step_rows, session_id, version) ==
    {st \in step_rows :
        \E p \in PlansBeside(plan_rows, session_id, version) : st.plan_id = p.id}

\* What the step rows of a plan say, in the order of their ids.
StepContents(step_rows) ==
    [i \in 1 .. Len(OrderById(step_rows)) |->
        [step_key |-> OrderById(step_rows)[i].step_key,
         title |-> OrderById(step_rows)[i].title,
         tool_name |-> OrderById(step_rows)[i].tool_name,
         status |-> OrderById(step_rows)[i].status,
         payload |-> json_loads(OrderById(step_rows)[i].payload_json)]]

\* What the steps of a request say, imported.
RequestContents(req) ==
    [i \in 1 .. Len(req.steps) |->
        [step_key |-> req.steps[i].id, title |-> req.steps[i].title,
         tool_name |-> req.steps[i].tool, status |-> "pending",
         payload |-> [inputs |-> PlanStepInput(req.steps[i]).inputs,
                      timeout_sec |-> PlanStepInput(req.steps[i]).timeout_sec]]]

\* C31: an accepted ImportPlan(session, v, steps, session_goal) leaves, as
\* the steps of the plan (session, v), the steps of the request in their
\* order, all pending; the session is awaiting_plan_approval; the goal of
\* the session is session_goal when the request gives one and the goal of
\* before otherwise; the plans and steps of the other versions of the
\* session, and the rows, plans, steps, runs, approvals and events of the
\* other sessions, are those of before.
C31_ImportReplacesSteps ==
    [][Imports =>
        LET s == last'.session_id
            req == last'.request
        IN  /\ Cardinality(plans' \ PlansBeside(plans', s, req.version)) = 1
            /\ StepContents(steps' \ StepsBeside(plans', steps', s, req.version))
                 = RequestContents(req)
            /\ sessions'[s].status = "awaiting_plan_approval"
            /\ sessions'[s].goal = IF req.session_goal = None THEN sessions[s].goal
                                   ELSE req.session_goal
            /\ PlansBeside(plans', s, req.version) = PlansBeside(plans, s, req.version)
            /\ StepsBeside(plans', steps', s, req.version)
                 = StepsBeside(plans, steps, s, req.version)
            /\ \A o \in DOMAIN sessions \ {s} :
                  /\ sessions'[o] = sessions[o]
                  /\ workspace'[o] = workspace[o]
                  /\ {r \in runs' : r.session_id = o} = {r \in runs : r.session_id = o}
                  /\ {a \in approvals' : a.session_id = o}
                       = {a \in approvals : a.session_id = o}
                  /\ SelectSeq(events', LAMBDA e : e.session_id = o)
                       = SelectSeq(events, LAMBDA e : e.session_id = o)]_vars

\* Version 1 of session_1 was imported, approved and re-imported with its
\* steps swapped and a goal, while session_2 keeps its own version 1, with
\* the two steps in the first order, and its goal.
C31_Witness ==
    /\ last.op = "import_plan" /\ last.code = 200 /\ last.session_id = "session_1"
    /\ last.request = SwappedPlan
    /\ sessions["session_1"].goal = "retry"
    /\ \E a \in approvals : a.session_id = "session_1" /\ a.approval_type = "plan"
    /\ "session_2" \in DOMAIN sessions
    /\ \E p \in plans : /\ p.session_id = "session_2" /\ p.title = "two steps"
                        /\ Cardinality({st \in steps : st.plan_id = p.id}) = 2

\* The statuses a step ends in.
TerminalStatuses == {"succeeded", "failed"}

\* C32: a step whose status is succeeded or failed is not executed again:
\* no run is created for it, and as long as the step row exists no
\* operation sets its status to a status that is not terminal.
C32_TerminalStepsStay ==
    [][\A st \in steps :
          st.status \in TerminalStatuses
          => /\ \A r \in NewRuns : r.step_id # st.id
             /\ \A after \in steps' : after.id = st.id
                                      => after.status \in TerminalStatuses]_vars

\* C33: a run row, once inserted, stays as it is: every operation leaves
\* every column of every run row there is, its plan_id and step_id
\* included, as it was.
C33_RunRowsImmutable ==
    [][\A r \in runs : r \in runs']_vars

(***************************************************************************)
(* calt/cli/app.py: _run_flow_operation, the body of flow run and of       *)
(* quickstart, on a client of the daemon.  Each await is a request in      *)
(* flight (last.code = 0), answered by the handler of the daemon; the flow *)
(* goes on from the answer to its next await.                              *)
(***************************************************************************)
MaxFlowSteps == 3

FlowKeys == <<"step_a", "step_b", "step_c", "step_d">>

\* The step lists of the plan files: up to MaxFlowSteps steps, each one
\* list_dir, which succeeds, or a command that is not allowlisted, which
\* fails; the keys in the order of FlowKeys.
FlowStepLists ==
    UNION {{[i \in 1 .. n |-> IF fails[i] THEN BlockedStep(FlowKeys[i])
                              ELSE ListStep(FlowKeys[i], "low")]
            : fails \in [1 .. n -> BOOLEAN]}
           : n \in 0 .. MaxFlowSteps}

\* A plan file whose first step carries a timeout_sec the daemon refuses.
RefusedSteps == <<[ListStep("step_a", "low") EXCEPT !.timeout_sec = 0]>>

FlowPlans ==
    {PlanBody(1, "flow", None, step_list) : step_list \in FlowStepLists}
    \cup {PlanBody(1, "flow", "refused", RefusedSteps)}

\* await client.<op>(...): the request is in flight.
Await(op, session_id, request) ==
    last' = Response(op, session_id, request, 0, None, NoBody)

\* The request in flight is one of op.
InFlight(op) == flow.pc = op /\ last.op = op /\ last.code = 0

\* The request of the flow has been answered.
Answered(op) == flow.pc = op /\ last.op = op /\ last.code # 0

\* response.raise_for_status(): the flow ends in the HTTPStatusError.
FlowRaises ==
    /\ flow' = [flow EXCEPT !.pc = "raised"]
    /\ UNCHANGED last

\* The call the client receives.
ClientCall(op, step_id) == [op |-> op, step_id |-> step_id]

\* The return value of _run_flow_operation.
flow_payload(f) ==
    [session_id |-> f.session_id, plan_version |-> f.plan[1].version,
     plan_title |-> f.plan[1].title, total_steps |-> Len(f.ordered_steps),
     step_results |-> f.step_results]

\* The head of the for loop over ordered_steps, from the position of f: the
\* approve_step of the next step, or the return after the last one.
flow_next_step(f) ==
    IF f.index > Len(f.ordered_steps)
    THEN /\ flow' = [f EXCEPT !.pc = "returned", !.payload = <<flow_payload(f)>>]
         /\ UNCHANGED last
    ELSE /\ flow' = [f EXCEPT !.pc = "approve_step",
                              !.calls = Append(@, ClientCall("approve_step",
                                                   f.ordered_steps[f.index].id))]
         /\ Await("approve_step", f.session_id,
                  [step_id |-> f.ordered_steps[f.index].id, body |-> ApprovalBody])

\* session_payload = await client.create_session(goal=goal)
flow_run(goal, plan) ==
    /\ flow.pc = "idle"
    /\ flow' = [flow EXCEPT !.pc = "create_session", !.goal = goal, !.plan = <<plan>>,
                            !.calls = Append(@, ClientCall("create_session", None))]
    /\ Await("create_session", None, [goal |-> goal, mode |-> "normal",
                                      safety_profile |-> "strict"])
    /\ UNCHANGED <<dbvars, run, clock, outcome, tx, toolvars, discord, doctor>>

\* import_payload = await client.import_plan(..., session_goal=plan_session_goal or goal)
flow_import_plan ==
    /\ Answered("create_session")
    /\ IF last.code # 200 THEN FlowRaises
       ELSE IF last.body.id = ""
       THEN \* RuntimeError("session create response does not include id")
            FlowRaises
       ELSE /\ flow' = [flow EXCEPT !.pc = "import_plan", !.session_id = last.body.id,
                                    !.calls = Append(@, ClientCall("import_plan", None))]
            /\ Await("import_plan", last.body.id,
                     [flow.plan[1] EXCEPT
                        !.session_goal = IF @ \in {None, ""} THEN flow.goal ELSE @])
    /\ UNCHANGED <<dbvars, run, clock, outcome, tx, toolvars, discord, doctor>>

\* await client.approve_plan(session_id, version, ...); ordered_steps are the
\* steps of the import response when it lists them, those of the plan file
\* otherwise.
flow_approve_plan ==
    /\ Answered("import_plan")
    /\ IF last.code # 200 THEN FlowRaises
       ELSE /\ flow' = [flow EXCEPT !.pc = "approve_plan",
                                    !.ordered_steps =
                                        IF "steps" \in DOMAIN last.body THEN last.body.steps
                                        ELSE flow.plan[1].steps,
                                    !.index = 1,
                                    !.calls = Append(@, ClientCall("approve_plan", None))]
            /\ Await("approve_plan", flow.session_id,
                     [version |-> flow.plan[1].version, body |-> ApprovalBody])
    /\ UNCHANGED <<dbvars, run, clock, outcome, tx, toolvars, discord, doctor>>

\* for step in ordered_steps: the first turn of the loop.
flow_first_step ==
    /\ Answered("approve_plan")
    /\ IF last.code # 200 THEN FlowRaises ELSE flow_next_step(flow)
    /\ UNCHANGED <<dbvars, run, clock, outcome, tx, toolvars, discord, doctor>>

\* execute_payload = await client.execute_step(session_id, step_id)
flow_execute_step ==
    /\ Answered("approve_step")
    /\ IF last.code # 200 THEN FlowRaises
       ELSE /\ flow' = [flow EXCEPT !.pc = "execute_step",
                                    !.approve_payload = <<last.body>>,
                                    !.calls = Append(@, ClientCall("execute_step",
                                                         last.request.step_id))]
            /\ Await("execute_step", flow.session_id,
                     [step_id |-> last.request.step_id,
                      body |-> [confirm_high_risk |-> FALSE]])
    /\ UNCHANGED <<dbvars, run, clock, outcome, tx, toolvars, discord, doctor>>

\* The loop without its break: the result is appended and the loop goes on.
flow_step_result_no_break ==
    /\ Answered("execute_step")
    /\ IF last.code # 200 THEN FlowRaises
       ELSE flow_next_step(
              [flow EXCEPT
                 !.index = @ + 1,
                 !.step_results =
                     Append(@, [step_id |-> last.request.step_id,
                                approved |-> flow.approve_payload[1].approved,
                                status |-> last.body.status,
                                run_id |-> last.body.run_id,
                                error |-> last.body.error])])
    /\ UNCHANGED <<dbvars, run, clock, outcome, tx, toolvars, discord, doctor>>

\* status = str(execute_payload.get("status") or "succeeded"); the result is
\* appended; a status other than succeeded breaks the loop.
flow_step_result ==
    /\ Answered("execute_step")
    /\ IF last.code # 200 THEN FlowRaises
       ELSE LET status == IF "status" \notin DOMAIN last.body \/ last.body.status = ""
                          THEN "succeeded" ELSE last.body.status
                appended == [flow EXCEPT
                               !.step_results =
                                   Append(@, [step_id |-> last.request.step_id,
                                              approved |-> flow.approve_payload[1].approved,
                                              status |-> status,
                                              run_id |-> last.body.run_id,
                                              error |-> last.body.error])]
            IN  IF status # "succeeded"
                THEN /\ flow' = [appended EXCEPT !.pc = "returned",
                                                 !.payload = <<flow_payload(appended)>>]
                     /\ UNCHANGED last
                ELSE flow_next_step([appended EXCEPT !.index = @ + 1])
    /\ UNCHANGED <<dbvars, run, clock, outcome, tx, toolvars, discord, doctor>>

Goals == {"demo"}

NextFlow ==
    \/ \E goal \in Goals, plan \in FlowPlans : flow_run(goal, plan)
    \/ InFlight("create_session") /\ create_session(last.request)
    \/ flow_import_plan
    \/ InFlight("import_plan") /\ import_plan(last.session_id, last.request)
    \/ flow_approve_plan
    \/ InFlight("approve_plan")
          /\ approve_plan(last.session_id, last.request.version, last.request.body)
    \/ flow_first_step
    \/ InFlight("approve_step")
          /\ approve_step(last.session_id, last.request.step_id, last.request.body)
    \/ flow_execute_step
    \/ InFlight("execute_step")
          /\ execute_step(last.session_id, last.request.step_id, last.request.body)
    \/ flow_step_result

SpecFlow == Init /\ [][NextFlow]_vars

\* The calls of a flow that runs every step of the list.
AllCalls(step_list) ==
    <<ClientCall("create_session", None), ClientCall("import_plan", None),
      ClientCall("approve_plan", None)>>
    \o [j \in 1 .. 2 * Len(step_list) |->
          IF j % 2 = 1 THEN ClientCall("approve_step", step_list[(j + 1) \div 2].id)
          ELSE ClientCall("execute_step", step_list[j \div 2].id)]

IsPrefix(a, b) == Len(a) <= Len(b) /\ SubSeq(b, 1, Len(a)) = a

\* The execute_step calls among the calls.
FlowExecutes(calls) == SelectSeq(calls, LAMBDA c : c.op = "execute_step")

C35_OwnWorkspace ==
    [][\A s \in DOMAIN sessions :
          (last'.op = "execute_step" /\ last'.session_id = s /\ NewRuns # {})
          => /\ \A st \in _fetch_step(s, last'.request.step_id) :
                   runtime_inputs(s, StepInputs(st)).workspace_root = workspace_root_of(s)
             /\ \A o \in DOMAIN sessions \ {s} : workspace'[o] = workspace[o]]_vars

\* The ids of the events of the type on version v of the session.
PlanEvents(session_id, event_type, summary) ==
    {i \in 1 .. Len(events) : /\ events[i].session_id = session_id
                              /\ events[i].event_type = event_type
                              /\ events[i].summary = summary}

\* ApprovePlan(v) has been accepted since the last ImportPlan of v.
ApprovedSinceImport(session_id, v) ==
    \E a \in PlanEvents(session_id, "plan_approved", "plan v" \o ToString(v) \o " approved") :
        \A i \in PlanEvents(session_id, "plan_imported",
                            "plan v" \o ToString(v) \o " imported") : i < a

\* C36: a step of version v runs only if ApprovePlan(v) was accepted after
\* the last ImportPlan of v: an approval of before a re-import authorises
\* no step of the re-imported plan.
C36_ApprovalCoversContent ==
    [][\A r \in NewRuns :
          \A p \in plans : p.id = r.plan_id
                           => ApprovedSinceImport(r.session_id, p.version)]_vars

\* The approvals rows a step of the behaviour inserts.
NewApprovals == {a \in approvals' : \A q \in approvals : q.id # a.id}

\* C37: ApproveStep and ExecuteStep on a step key that two versions of the
\* session share act on the step of the highest version: the step approval
\* is recorded for that step, and the run is one of that step.
C37_CurrentVersionStep ==
    [][\A s \in DOMAIN sessions :
          /\ (last'.op = "approve_step" /\ last'.session_id = s /\ last'.code = 200)
             => \A a \in NewApprovals :
                   \E st \in CurrentPlanSteps(s, steps) :
                      st.id = a.step_id /\ st.step_key = last'.request.step_id
          /\ (last'.op = "execute_step" /\ last'.session_id = s /\ last'.code = 200)
             => \A r \in NewRuns :
                   \E st \in CurrentPlanSteps(s, steps) :
                      st.id = r.step_id /\ st.step_key = last'.request.step_id]_vars

\* C38: while a session is cancelled no ExecuteStep runs a tool or creates a
\* run for it (its workspace and its runs are as before), and its status
\* stays cancelled under every operation but an accepted ImportPlan.
C38_CancelledStays ==
    [][\A s \in DOMAIN sessions :
          sessions[s].status = "cancelled"
          => /\ \A r \in NewRuns : r.session_id # s
             /\ workspace'[s] = workspace[s]
             /\ sessions'[s].status # "cancelled"
                   => last'.op = "import_plan" /\ last'.code = 200]_vars

\* C39: a session whose status is succeeded has a plan of its highest
\* version with at least one step and every step of it succeeded; a session
\* whose status is awaiting_step_approval has an approval of type plan for
\* the plan of its highest version.
C39_StatusMeansCurrentPlan ==
    \A s \in DOMAIN sessions :
        /\ sessions[s].status = "succeeded"
           => /\ CurrentPlanSteps(s, steps) # {}
              /\ \A st \in CurrentPlanSteps(s, steps) : st.status = "succeeded"
        /\ sessions[s].status = "awaiting_step_approval"
           => \E p \in _fetch_plan(s, current_plan_version(s)) :
                 \E a \in approvals : /\ a.approval_type = "plan"
                                      /\ a.session_id = s
                                      /\ a.plan_id = p.id

\* C40: every ExecuteStep request that has invoked its tool ends with its
\* run row committed and, with it, the step_executed or step_failed event
\* of that run, whatever the other requests on the session commit while it
\* is under way.  (A request that ends because an artifact file could not
\* be written is left aside.)
C40_EveryInvocationRecorded ==
    [][(tx.pc \notin {"idle", "insert_artifacts"} /\ tx'.pc = "idle")
       => /\ last'.op = "execute_step" /\ last'.code = 200
          /\ \E r \in NewRuns :
                /\ r.session_id = tx.session_id
                /\ \E i \in Len(events) + 1 .. Len(events') :
                      /\ events'[i].run_id = r.id
                      /\ events'[i].event_type \in {"step_executed", "step_failed"}]_vars

====
